---- MODULE Spec2Model ----
(***************************************************************************)
(* Verification model of two parts of HOOMD-blue:                          *)
(*   - DomainDecomposition (libhoomd/communication/DomainDecomposition.cc) *)
(*     checked under SpecDD;                                               *)
(*   - the convergence loop of IntegratorHPMCMonoGPU::update               *)
(*     (hpmc/IntegratorHPMCMonoGPU.h) checked under SpecHPMC.              *)
(***************************************************************************)
EXTENDS Integers, Naturals, Sequences, FiniteSets, TLC

\* ---------------------------------------------------------------- bounds
MaxP == 8      \* largest MPI communicator size explored
MaxL == 2      \* largest (integer) box length per axis explored
MaxReq == 2    \* largest requested (pinned) grid dimension explored
MaxWork == 3   \* largest N * nselect explored (particles times sweeps)
MantBits == 4  \* significand bits of the Scalar type explored
MaxWorkDepl == 2 \* largest N * nselect explored with depletants enabled
MaxLen == 2    \* largest scratch length a kernel reports
MaxDF == 2     \* largest depletant weight of one particle in one sweep

VARIABLES
    \* ---- DomainDecomposition, one object per MPI rank
    size,        \* m_mpi_comm->size()
    L,           \* constructor argument: global box lengths <<Lx, Ly, Lz>>
    root,        \* rank that performs the decomposition
    req,         \* constructor arguments <<nx, ny, nz>> (0 = unconstrained)
    dpc,         \* per rank: position in the constructor
    m_n,         \* per rank: <<m_nx, m_ny, m_nz>>
    m_grid_pos,  \* per rank: <<x, y, z>> position in the grid
    fd_first,    \* result of the first findDecomposition call on root (a local)
    msg_error,   \* number of messages written to msg->error() by root
    query,       \* last getNeighborRank call: [rank, dir, res]
    bquery,      \* last isAtBoundary call: [rank, dir, res]
    lbox         \* last calculateLocalBox call: [rank, gL, fused, lo, hi, periodic]

ddvars == <<size, L, root, req, dpc, m_n, m_grid_pos, fd_first, msg_error, query,
            bquery, lbox>>

VARIABLES
    \* ---- IntegratorHPMCMonoGPU, one update() call on one rank
    N,                  \* m_pdata->getN(), number of local particles
    m_nselect,          \* sweeps per step
    gpu_partition,      \* m_pdata->getGPUPartition(): sequence of <<first, second>>
    m_fugacity,         \* fugacity of the (one) type pair
    m_ntrial,           \* ntrial of the (one) type pair
    pc,                 \* position of the host thread in update()
    global_box,         \* m_pdata->getGlobalBox() as update() reads it
    i_sel,              \* loop variable i of the loop over nselect
    m_is_reversed,      \* UpdateOrderGPU::m_is_reversed
    m_update_order,     \* UpdateOrderGPU::m_update_order
    m_reverse_update_order, \* UpdateOrderGPU::m_reverse_update_order
    overlaps,           \* trial/trial overlap relation of this sweep's moves
    depl,               \* depletant weight of each particle's move in this sweep
    m_reject_out_of_cell,
    m_reject,
    m_reject_out,
    m_condition,
    converged,
    m_max_len,
    m_req_len,
    m_deltaF_int,       \* free energy accumulator of each particle
    lanes_done,         \* lanes of the running narrow phase that have finished
    depl_ran,           \* the depletant kernels of the running pass have finished
    depl_issued,        \* some depletant kernel was launched since construction
    niter,              \* completed convergence iterations of the current sweep
    n_retry,            \* reruns caused by a scratch overflow since construction
    postype,            \* committed configuration of each particle
    m_trial_postype,    \* trial configuration of each particle
    m_counters,         \* per-device counters: move attempts counted on each device
    m_count_total,      \* m_count_total: move attempts in the process-wide total
    n_shuffle,          \* calls of m_update_order.shuffle() in this update()
    n_reduce,           \* calls of reduce_counters in this update()
    n_communicate,      \* calls of communicate() in this update()
    m_patch,            \* m_patch && !m_patch_log: patch energy is evaluated
    patch_pairs,        \* pairs whose patch energy rejects the later-ordered move
    m_prof,             \* a profiler is attached
    n_push,             \* calls of m_prof->push in this update()
    n_pop               \* calls of m_prof->pop in this update()

hvars == <<N, m_nselect, gpu_partition, m_fugacity, m_ntrial, pc,
           global_box, i_sel, m_is_reversed, m_update_order,
           m_reverse_update_order, overlaps, depl, m_reject_out_of_cell,
           m_reject, m_reject_out, m_condition, converged, m_max_len,
           m_req_len, m_deltaF_int, lanes_done, depl_ran, depl_issued,
           niter, n_retry, postype, m_trial_postype, m_counters,
           m_count_total, n_shuffle, n_reduce, n_communicate, m_patch,
           patch_pairs, m_prof, n_push, n_pop>>

VARIABLES
    \* ---- components exercised on their own
    uorder,       \* an UpdateOrderGPU object and the calls made on it
    wscan,        \* one run of test_warp_scan
    pfilter,     \* one call of ParticleFilterIntersection::getSelectedTags
    dstreams     \* streams and events of one auxiliary depletant insertion

tvars == <<uorder, wscan, pfilter, dstreams>>

VARIABLES
    \* ---- further components exercised on their own
    stream_tables, \* the per-type-pair stream and event tables of the integrator
    thermo,        \* one call of ComputeThermoGPU::computeProperties on all ranks
    imd,           \* an IMDInterface and its client
    pcomm          \* the split of the local particles over a particle communicator

cvars == <<stream_tables, thermo, imd, pcomm>>

NoTriple == <<0, 0, 0>>

\* no isAtBoundary / calculateLocalBox call is outstanding
NoBoundaryCall == [rank |-> 0, dir |-> 0, res |-> FALSE, valid |-> FALSE]

NoBoxCall == [rank |-> 0, gL |-> NoTriple, fused |-> FALSE, lo |-> NoTriple,
              hi |-> NoTriple, periodic |-> NoTriple, valid |-> FALSE]

\* ------------------------------------------------------------ Index3D
\* Index3D(w,h,d)(i,j,k): x is the fastest varying coordinate
Index3D(n, i, j, k) == i + j * n[1] + k * n[1] * n[2]

\* Index3D::getTriple(idx)
getTriple(n, idx) ==
    <<idx % n[1], (idx \div n[1]) % n[2], idx \div (n[1] * n[2])>>

\* ----------------------------------------------------- findDecomposition
\* surface_area = L.x*L.y*nz + L.x*L.z*ny + L.y*L.z*nx
SurfaceArea(l, nx, ny, nz) == l[1]*l[2]*nz + l[1]*l[3]*ny + l[2]*l[3]*nx

\* body of the innermost loop: the two filters and the update of the best
\* decomposition found so far.  c = [P, L, nin], st = [n, min, found]
\* (first: the same body without the "|| !found_decomposition" of line 168)
TryTripleNoFound(c, nxt, nyt, nzt, st) ==
    IF c.nin[3] # 0 /\ nzt # c.nin[3] THEN st
    ELSE IF nxt * nyt * nzt # c.P THEN st
    ELSE LET sa == SurfaceArea(c.L, nxt, nyt, nzt)
         IN IF sa < st.min
            THEN [n |-> <<nxt, nyt, nzt>>, min |-> sa, found |-> TRUE]
            ELSE st

\* the same body without the product test of line 166
TryTripleNoProductCheck(c, nxt, nyt, nzt, st) ==
    IF c.nin[3] # 0 /\ nzt # c.nin[3] THEN st
    ELSE LET sa == SurfaceArea(c.L, nxt, nyt, nzt)
         IN IF sa < st.min \/ ~st.found
            THEN [n |-> <<nxt, nyt, nzt>>, min |-> sa, found |-> TRUE]
            ELSE st

\* the same body without the assignment min_surface_area = surface_area
TryTripleNoMinUpdate(c, nxt, nyt, nzt, st) ==
    IF c.nin[3] # 0 /\ nzt # c.nin[3] THEN st
    ELSE IF nxt * nyt * nzt # c.P THEN st
    ELSE LET sa == SurfaceArea(c.L, nxt, nyt, nzt)
         IN IF sa < st.min \/ ~st.found
            THEN [n |-> <<nxt, nyt, nzt>>, min |-> st.min, found |-> TRUE]
            ELSE st

\* the same body with "<=" in the comparison of the areas
TryTripleTieReplaces(c, nxt, nyt, nzt, st) ==
    IF c.nin[3] # 0 /\ nzt # c.nin[3] THEN st
    ELSE IF nxt * nyt * nzt # c.P THEN st
    ELSE LET sa == SurfaceArea(c.L, nxt, nyt, nzt)
         IN IF sa <= st.min \/ ~st.found
            THEN [n |-> <<nxt, nyt, nzt>>, min |-> sa, found |-> TRUE]
            ELSE st

TryTriple(c, nxt, nyt, nzt, st) ==
    IF c.nin[3] # 0 /\ nzt # c.nin[3] THEN st
    ELSE IF nxt * nyt * nzt # c.P THEN st
    ELSE LET sa == SurfaceArea(c.L, nxt, nyt, nzt)
         IN IF sa < st.min \/ ~st.found
            THEN [n |-> <<nxt, nyt, nzt>>, min |-> sa, found |-> TRUE]
            ELSE st

\* the three nested for loops; each loop evaluates the state it hands to its
\* next iteration before it goes on (the test on .found is always true)
RECURSIVE ScanZ(_, _, _, _, _)
ScanZ(c, nxt, nyt, nzt, st) ==
    IF nxt * nyt * nzt > c.P THEN st
    ELSE LET next == TryTriple(c, nxt, nyt, nzt, st)
         IN IF next.found \in BOOLEAN
            THEN ScanZ(c, nxt, nyt, nzt + 1, next) ELSE next

RECURSIVE ScanY(_, _, _, _)
ScanY(c, nxt, nyt, st) ==
    IF nxt * nyt > c.P THEN st
    ELSE LET next == IF c.nin[2] # 0 /\ nyt # c.nin[2] THEN st
                     ELSE ScanZ(c, nxt, nyt, 1, st)
         IN IF next.found \in BOOLEAN
            THEN ScanY(c, nxt, nyt + 1, next) ELSE next

RECURSIVE ScanX(_, _, _)
ScanX(c, nxt, st) ==
    IF nxt > c.P THEN st
    ELSE LET next == IF c.nin[1] # 0 /\ nxt # c.nin[1] THEN st
                     ELSE ScanY(c, nxt, 1, st)
         IN IF next.found \in BOOLEAN
            THEN ScanX(c, nxt + 1, next) ELSE next

\* bool findDecomposition(L, nx&, ny&, nz&): returns [n, min, found];
\* .found is the return value, .n the values left in nx, ny, nz
findDecomposition(P, l, nin) ==
    ScanX([P |-> P, L |-> l, nin |-> nin], 1,
          [n     |-> <<1, 1, P>>,
           min   |-> l[1]*l[2]*P + l[1]*l[3] + l[2]*l[3],
           found |-> (nin[1] = 0 /\ nin[2] = 0 /\ nin[3] = 0)])

\* ------------------------------------------------------ getNeighborRank
adj == <<<<1,0,0>>, <<-1,0,0>>, <<0,1,0>>, <<0,-1,0>>, <<0,0,1>>, <<0,0,-1>>>>

\* wrap across boundaries (one axis)
WrapNoUpper(v, n) == IF v < 0 THEN v + n ELSE v

\* the same without the test for a negative coordinate
WrapNoLower(v, n) == IF v = n THEN v - n ELSE v

Wrap(v, n) == IF v < 0 THEN v + n ELSE IF v = n THEN v - n ELSE v

\* getNeighborRank(dir) on an object with grid n and position pos; dir in 0..5
getNeighborRank(n, pos, dir) ==
    LET ineigh == Wrap(pos[1] + adj[dir + 1][1], n[1])
        jneigh == Wrap(pos[2] + adj[dir + 1][2], n[2])
        kneigh == Wrap(pos[3] + adj[dir + 1][3], n[3])
    IN Index3D(n, ineigh, jneigh, kneigh)

\* --------------------------------------------------------- isAtBoundary
\* the same with m_nx, m_ny, m_nz in place of m_nx - 1, m_ny - 1, m_nz - 1
isAtBoundaryNoMinusOne(n, pos, dir) ==
    \/ (dir = 0 /\ pos[1] = n[1])
    \/ (dir = 1 /\ pos[1] = 0)
    \/ (dir = 2 /\ pos[2] = n[2])
    \/ (dir = 3 /\ pos[2] = 0)
    \/ (dir = 4 /\ pos[3] = n[3])
    \/ (dir = 5 /\ pos[3] = 0)

isAtBoundary(n, pos, dir) ==
    \/ (dir = 0 /\ pos[1] = n[1] - 1)
    \/ (dir = 1 /\ pos[1] = 0)
    \/ (dir = 2 /\ pos[2] = n[2] - 1)
    \/ (dir = 3 /\ pos[2] = 0)
    \/ (dir = 4 /\ pos[3] = n[3] - 1)
    \/ (dir = 5 /\ pos[3] = 0)

\* ---------------------------------------------------- calculateLocalBox
\* Scalar: a binary floating-point number with MantBits significand bits,
\* round to nearest even.  A value x is held as the integer x * Unit; Unit
\* is small enough a power of two that every value met is a multiple of it.
Unit == 2 ^ (MantBits + 6)

RoundHalfEven(a, d) ==
    LET q == a \div d
        r == a % d
    IN IF 2 * r > d \/ (2 * r = d /\ q % 2 = 1) THEN q + 1 ELSE q

\* binary exponent at which a / b has MantBits bits before the point
RECURSIVE ShiftFor(_, _, _)
ShiftFor(a, b, s) ==
    IF a \div (b * 2 ^ s) >= 2 ^ MantBits THEN ShiftFor(a, b, s + 1) ELSE s

\* the Scalar nearest to the rational a / b (a, b integers, b > 0)
Fl(a, b) ==
    LET m == IF a >= 0 THEN a ELSE -a
        s == ShiftFor(m, b, 0)
        v == RoundHalfEven(m, b * 2 ^ s) * 2 ^ s
    IN IF a >= 0 THEN v ELSE -v

ScalarDiv(x, y) == Fl(x * Unit, y)

ScalarMul(x, y) == Fl(x * y, Unit)

ScalarAdd(x, y) == Fl(x + y, 1)

\* conversion of a small unsigned integer to Scalar
make_scalar(k) == k * Unit

\* BoxDim of the whole simulation, one axis: length l, centered on the origin
getL(l) == make_scalar(l)

getLo(l) == ScalarDiv(-make_scalar(l), make_scalar(2))

\* L_local = L / make_scalar3(m_nx, m_ny, m_nz), one axis
LocalLength(na, l) == ScalarDiv(getL(l), make_scalar(na))

\* lo = lo_g + (double) m_grid_pos * L_local, one axis; fused: the compiler
\* contracted the multiplication and the addition into one rounding
LocalLo(na, ka, l, fused) ==
    LET L_local == LocalLength(na, l)
    IN IF fused
       THEN ScalarAdd(getLo(l), ka * L_local)
       ELSE ScalarAdd(getLo(l), ScalarMul(make_scalar(ka), L_local))

\* hi = lo + L, the global length in place of L_local
LocalHiGlobalExtent(lo, na, l) == ScalarAdd(lo, getL(l))

\* hi = lo + L_local, one axis
LocalHi(lo, na, l) == ScalarAdd(lo, LocalLength(na, l))

\* calculateLocalBox(global_box) on an object with grid n and position pos;
\* gL holds the three lengths of global_box
calculateLocalBox(n, pos, gL, fused) ==
    LET lo == [a \in 1 .. 3 |-> LocalLo(n[a], pos[a], gL[a], fused)]
    IN [lo |-> lo,
        hi |-> [a \in 1 .. 3 |-> LocalHi(lo[a], n[a], gL[a])],
        periodic |-> [a \in 1 .. 3 |-> IF n[a] = 1 THEN 1 ELSE 0]]

\* ----------------------------------------------------------- constructor
Ranks == 0 .. (size - 1)

\* no box has been read, or the box read has gone out of scope
NoBox == [npd |-> NoTriple, periodic |-> <<FALSE, FALSE, FALSE>>, ndim |-> 0]

\* the integrator exists but update() is never called
HPMCIdle ==
    /\ N = 0 /\ m_nselect = 1 /\ gpu_partition = <<>> /\ pc = "idle" /\ i_sel = 0
    /\ m_fugacity = 0 /\ m_ntrial = 0 /\ global_box = NoBox
    /\ m_is_reversed = FALSE /\ m_update_order = <<>> /\ m_reverse_update_order = <<>>
    /\ overlaps = {} /\ depl = <<>> /\ m_reject_out_of_cell = <<>> /\ m_reject = <<>>
    /\ m_reject_out = <<>> /\ m_condition = 0 /\ converged = FALSE
    /\ m_max_len = 0 /\ m_req_len = 0 /\ m_deltaF_int = <<>>
    /\ lanes_done = {} /\ depl_ran = FALSE /\ depl_issued = FALSE
    /\ niter = 0 /\ n_retry = 0
    /\ postype = <<>> /\ m_trial_postype = <<>>
    /\ m_counters = <<>> /\ m_count_total = 0
    /\ n_shuffle = 0 /\ n_reduce = 0 /\ n_communicate = 0
    /\ m_patch = FALSE /\ patch_pairs = {}
    /\ m_prof = FALSE /\ n_push = 0 /\ n_pop = 0

\* none of the stand-alone components is exercised
ComponentsIdle ==
    stream_tables = <<>> /\ thermo = <<>> /\ imd = <<>> /\ pcomm = <<>>

ToolsIdle ==
    /\ uorder = <<>> /\ wscan = <<>> /\ pfilter = <<>> /\ dstreams = <<>>
    /\ ComponentsIdle

InitDD ==
    /\ ToolsIdle
    /\ HPMCIdle
    /\ size \in 1 .. MaxP
    /\ L \in (1 .. MaxL) \X (1 .. MaxL) \X (1 .. MaxL)
    /\ root \in {0, size - 1}
    /\ req \in (0 .. MaxReq) \X (0 .. MaxReq) \X (0 .. MaxReq)
    /\ dpc = [r \in 0 .. (MaxP - 1) |-> IF r < size THEN "start" ELSE "absent"]
    /\ m_n = [r \in 0 .. (MaxP - 1) |-> NoTriple]
    /\ m_grid_pos = [r \in 0 .. (MaxP - 1) |-> NoTriple]
    /\ fd_first = [n |-> NoTriple, min |-> 0, found |-> FALSE]
    /\ msg_error = 0
    /\ query = [rank |-> 0, dir |-> 0, res |-> 0, valid |-> FALSE]
    /\ bquery = NoBoundaryCall
    /\ lbox = NoBoxCall

\* value installed in m_nx, m_ny, m_nz by the root after a failed first search
RetryNone(P, l, first) == first.n

RetryUnconstrained(P, l, first) == findDecomposition(P, l, NoTriple).n

\* the constructor arguments L, nx, ny, nz and the local found_decomposition
\* once the constructor has returned
OutOfScope == <<0, 0, 0>>

NoResult == [n |-> NoTriple, min |-> 0, found |-> FALSE]

\* root, lines 91-107: findDecomposition; on failure error() and a second
\* search with nx = ny = nz = 0; then m_nx = nx, m_ny = ny, m_nz = nz
RootFind ==
    /\ dpc[root] = "start"
    /\ LET first == findDecomposition(size, L, req)
           n == IF first.found THEN first.n
                ELSE RetryUnconstrained(size, L, first)
       IN /\ fd_first' = first
          /\ msg_error' = IF first.found THEN msg_error ELSE msg_error + 1
          /\ m_n' = [m_n EXCEPT ![root] = n]
    /\ dpc' = [dpc EXCEPT ![root] = "found"]
    /\ UNCHANGED <<size, L, root, req, m_grid_pos, query, bquery, lbox>>
    /\ UNCHANGED <<hvars, tvars, cvars>>

\* root, lines 109-129: the broadcasts (root is the sender), the indexer, its
\* own grid position, and the return from the constructor
RootFinish ==
    /\ dpc[root] = "found"
    /\ m_grid_pos' = [m_grid_pos EXCEPT ![root] = getTriple(m_n[root], root)]
    /\ dpc' = [dpc EXCEPT ![root] = "done"]
    /\ L' = OutOfScope
    /\ req' = OutOfScope
    /\ fd_first' = NoResult
    /\ UNCHANGED <<size, root, m_n, msg_error, query, bquery, lbox>>
    /\ UNCHANGED <<hvars, tvars, cvars>>

\* the broadcasts would deliver m_nx and m_ny exchanged
broadcastExchanged(n) == <<n[2], n[1], n[3]>>

\* boost::mpi::broadcast of m_nx, m_ny, m_nz from root: what a receiver holds
broadcast(n) == n

\* a non-root rank: receives m_nx, m_ny, m_nz in the broadcasts, then builds
\* the indexer and decodes its own grid position
ConstructOther(r) ==
    /\ r # root
    /\ dpc[r] = "start"
    /\ dpc[root] = "done"
    /\ m_n' = [m_n EXCEPT ![r] = broadcast(m_n[root])]
    /\ m_grid_pos' = [m_grid_pos EXCEPT ![r] = getTriple(broadcast(m_n[root]), r)]
    /\ dpc' = [dpc EXCEPT ![r] = "done"]
    /\ UNCHANGED <<size, L, root, req, fd_first, msg_error, query, bquery, lbox>>
    /\ UNCHANGED <<hvars, tvars, cvars>>

Constructed == \A r \in Ranks : dpc[r] = "done"

\* the member functions are called one at a time
NoCallOutstanding == ~query.valid /\ ~bquery.valid /\ ~lbox.valid

\* a call of getNeighborRank(d) on rank r
CallGetNeighborRank(r, d) ==
    /\ Constructed
    /\ NoCallOutstanding
    /\ query' = [rank |-> r, dir |-> d,
                 res |-> getNeighborRank(m_n[r], m_grid_pos[r], d),
                 valid |-> TRUE]
    /\ UNCHANGED <<size, L, root, req, dpc, m_n, m_grid_pos, fd_first, msg_error,
                   bquery, lbox>>
    /\ UNCHANGED <<hvars, tvars, cvars>>

\* the caller consumes the returned rank
ReturnGetNeighborRank ==
    /\ query.valid
    /\ query' = [rank |-> 0, dir |-> 0, res |-> 0, valid |-> FALSE]
    /\ UNCHANGED <<size, L, root, req, dpc, m_n, m_grid_pos, fd_first, msg_error,
                   bquery, lbox>>
    /\ UNCHANGED <<hvars, tvars, cvars>>

\* a call of isAtBoundary(d) on rank r
CallIsAtBoundary(r, d) ==
    /\ Constructed
    /\ NoCallOutstanding
    /\ bquery' = [rank |-> r, dir |-> d,
                  res |-> isAtBoundary(m_n[r], m_grid_pos[r], d),
                  valid |-> TRUE]
    /\ UNCHANGED <<size, L, root, req, dpc, m_n, m_grid_pos, fd_first, msg_error,
                   query, lbox>>
    /\ UNCHANGED <<hvars, tvars, cvars>>

\* the caller consumes the returned flag
ReturnIsAtBoundary ==
    /\ bquery.valid
    /\ bquery' = NoBoundaryCall
    /\ UNCHANGED <<size, L, root, req, dpc, m_n, m_grid_pos, fd_first, msg_error,
                   query, lbox>>
    /\ UNCHANGED <<hvars, tvars, cvars>>

\* a call of calculateLocalBox(global_box) on rank r
CallCalculateLocalBox(r, gL, fused) ==
    /\ Constructed
    /\ NoCallOutstanding
    /\ lbox' = [rank |-> r, gL |-> gL, fused |-> fused, valid |-> TRUE]
                @@ calculateLocalBox(m_n[r], m_grid_pos[r], gL, fused)
    /\ UNCHANGED <<size, L, root, req, dpc, m_n, m_grid_pos, fd_first, msg_error,
                   query, bquery>>
    /\ UNCHANGED <<hvars, tvars, cvars>>

\* the caller consumes the returned box
ReturnCalculateLocalBox ==
    /\ lbox.valid
    /\ lbox' = NoBoxCall
    /\ UNCHANGED <<size, L, root, req, dpc, m_n, m_grid_pos, fd_first, msg_error,
                   query, bquery>>
    /\ UNCHANGED <<hvars, tvars, cvars>>

\* global boxes handed to calculateLocalBox
GlobalBoxes == (1 .. MaxL) \X (1 .. MaxL) \X (1 .. MaxL)

\* a member function is called on some rank of the constructed decomposition
CallMember ==
    /\ NoCallOutstanding
    /\ Constructed
    /\ \/ \E r \in Ranks, d \in 0 .. 5 : CallGetNeighborRank(r, d)
       \/ \E r \in Ranks, d \in 0 .. 5 : CallIsAtBoundary(r, d)
       \/ \E r \in Ranks, gL \in GlobalBoxes, fused \in BOOLEAN :
              CallCalculateLocalBox(r, gL, fused)

NextDD ==
    \/ RootFind
    \/ RootFinish
    \/ \E r \in Ranks : ConstructOther(r)
    \/ CallMember
    \/ ReturnGetNeighborRank
    \/ ReturnIsAtBoundary
    \/ ReturnCalculateLocalBox

vars == <<ddvars, hvars, tvars, cvars>>

SpecDD == InitDD /\ [][NextDD]_vars

\* =========================================================================
\* IntegratorHPMCMonoGPU::update on one rank, one type, no patch energy.
\* Under SpecHPMC the fugacity is 0 (hard particles); under SpecDepl it is 0
\* or not and the depletants are direct (ntrial = 0) or auxiliary (ntrial > 0).
\* =========================================================================
Particles == 0 .. (N - 1)

BoolVectors(n) == [0 .. (n - 1) -> BOOLEAN]

\* unordered pairs of distinct particles
Pairs(n) == {{i, j} : i \in 0 .. (n - 1), j \in 0 .. (n - 1)} \ {{i} : i \in 0 .. (n - 1)}

\* GPUPartition: contiguous index ranges [first, second), one per active GPU
Partitions(n) ==
    {<<(<<0, n>>)>>} \cup {<<(<<0, s>>), (<<s, n>>)>> : s \in 0 .. n}

\* GPUPartition::getRange(idev)
getRange(part, idev) == part[idev + 1]

NumActiveGPUs == Len(gpu_partition)

\* ---- minimum image check
m_nominal_width == 1

\* nearest plane distances explored: below, at and above 2 * m_nominal_width
NpdValues == 1 .. (2 * m_nominal_width + 1)

\* the same test without its third line (the z axis)
BoxTooSmallNoZ(gb, w) ==
    \/ (gb.periodic[1] /\ gb.npd[1] <= w * 2)
    \/ (gb.periodic[2] /\ gb.npd[2] <= w * 2)

BoxTooSmall(gb, w) ==
    \/ (gb.periodic[1] /\ gb.npd[1] <= w * 2)
    \/ (gb.periodic[2] /\ gb.npd[2] <= w * 2)
    \/ (gb.ndim = 3 /\ gb.periodic[3] /\ gb.npd[3] <= w * 2)

\* if (this->m_prof) this->m_prof->push(...) or ->pop(...): n counts the calls
ProfilerCall(prof, n) == IF prof THEN n + 1 ELSE n

\* ---- UpdateOrderGPU
\* get(): ignores m_is_reversed
UpdateOrderGetForward(rev, fwd, bwd) == fwd

\* get(): the reversed array if m_is_reversed, else the forward array
UpdateOrderGet(rev, fwd, bwd) == IF rev THEN bwd ELSE fwd

\* resize(N): nothing is done for N = 0 or N equal to the present size;
\* otherwise both arrays are rebuilt and m_is_reversed is cleared
resize(o, n) ==
    IF n = 0 \/ n = Cardinality(DOMAIN o.m_update_order) THEN o
    ELSE [m_update_order |-> [i \in 0 .. (n - 1) |-> i],
          m_reverse_update_order |-> [i \in 0 .. (n - 1) |-> n - i - 1],
          m_is_reversed |-> FALSE]

\* shuffle(timestep): the random bit would flip the direction held before
shuffleFlip(o, bit) == [o EXCEPT !.m_is_reversed = (o.m_is_reversed # bit)]

\* shuffle(timestep): m_is_reversed takes one random bit
shuffle(o, bit) == [o EXCEPT !.m_is_reversed = bit]

\* get() on an object o
get(o) == UpdateOrderGet(o.m_is_reversed, o.m_update_order, o.m_reverse_update_order)

\* UpdateOrderGPU(exec_conf, seed, N): empty arrays, then resize(N)
UpdateOrderGPU(n) ==
    resize([m_update_order |-> <<>>, m_reverse_update_order |-> <<>>,
            m_is_reversed |-> FALSE], n)

\* d_update_order_by_ptl as handed to the kernels
d_update_order_by_ptl == UpdateOrderGet(m_is_reversed, m_update_order, m_reverse_update_order)

\* a sweep that called shuffle() itself would take the fresh bit
SweepDirectionRedrawn(rev, bit) == bit

\* the body of the loop over nselect holds no call of shuffle(): a sweep
\* runs with the m_is_reversed it finds
SweepDirection(rev, bit) == rev

\* ---- counters
\* the memsets of the per-device counters are missing
ResetCountersKeep(cnt) == cnt

\* reset per-device counters
ResetCounters(cnt) == [d \in DOMAIN cnt |-> 0]

\* hpmc_update_pdata with per-device counters: every particle of a device's
\* range is one attempt on that device
CountMoves(cnt, part) ==
    [d \in DOMAIN cnt |-> cnt[d] + (part[d][2] - part[d][1])]

RECURSIVE SumCounters(_, _)
SumCounters(cnt, d) == IF d = 0 THEN 0 ELSE cnt[d] + SumCounters(cnt, d - 1)

\* gpu::reduce_counters: the total takes the sum of the per-device counters
reduce_counters(total, cnt) == total + SumCounters(cnt, Len(cnt))

\* a sweep that called communicate() itself
CommunicateInSweepOnce(n) == n + 1

\* the body of the loop over nselect holds no call of communicate()
CommunicateInSweep(n) == n

\* ---- depletants
\* the depletant loops would run for a pair of zero fugacity as well
SkipDepletantsNever(f) == FALSE

\* if (h_fugacity.data[...] == 0) continue
SkipDepletants(f) == f = 0

have_depletants == ~SkipDepletants(m_fugacity)

have_auxilliary_variables == have_depletants /\ m_ntrial # 0

\* updateCellWidth: Poisson mean of a type with excluded volume vol
Lambda(f, vol) == IF f * vol >= 0 THEN f * vol ELSE -(f * vol)

\* the memset of the accumulators is missing
ResetDeltaFKeep(dF, f, ntrial) == dF

\* reset free energy accumulators (only for a pair with fugacity and ntrial)
ResetDeltaF(dF, f, ntrial) ==
    IF SkipDepletants(f) \/ ntrial = 0 THEN dF ELSE [i \in DOMAIN dF |-> 0]

\* phase 1 and phase 2 add the weights w to the accumulators
Accumulate(dF, w, n) == [i \in 0 .. (n - 1) |-> dF[i] + w[i]]

\* the kernels raise m_req_len to the length r they need
ReportLength(req_len, r) == IF r > req_len THEN r ELSE req_len

\* hpmc_insert_depletants: a move of full weight is rejected
InsertDepletants(rej_out, w, n) ==
    [i \in 0 .. (n - 1) |-> rej_out[i] \/ w[i] >= MaxDF]

\* hpmc_depletants_accept: Metropolis-Hastings on the accumulated deltaF
DepletantsAccept(rej_out, dF, n) ==
    [i \in 0 .. (n - 1) |-> rej_out[i] \/ dF[i] >= MaxDF]

\* m_max_len is left alone
GrowMaxLenKeep(max_len, req_len) == max_len

\* m_max_len = *h_req_len.data
GrowMaxLen(max_len, req_len) == req_len

\* the model stops counting reruns one past the largest reported length
RetryCap == MaxLen + 1

\* ---- kernels
\* hpmc_narrow_phase for the lane of particle i: reject_out of cell, or an
\* overlap with the trial configuration of an earlier-ordered particle that
\* is not rejected in the input hypothesis rej
NarrowPhase(i, ord, rej, rooc, ov, n) ==
    rooc[i] \/ \E j \in 0 .. (n - 1) :
                  j # i /\ ord[j] < ord[i] /\ ~rej[j] /\ {i, j} \in ov

\* hpmc_check_convergence: the flag is raised when some entry changed
CheckConvergenceFlag(cond, rej, rej_out, n) ==
    IF \E i \in 0 .. (n - 1) : rej[i] # rej_out[i] THEN 1 ELSE cond

\* computePatchEnergyGPU: the patch energy rejects a move against the trial
\* configuration of an earlier-ordered particle that is not rejected in rej
computePatchEnergyGPU(rej_out, ord, rej, pp, n) ==
    [i \in 0 .. (n - 1) |->
        rej_out[i] \/ \E j \in 0 .. (n - 1) :
                         j # i /\ ord[j] < ord[i] /\ ~rej[j] /\ {i, j} \in pp]

\* hpmc_update_pdata would commit every trial move
hpmc_update_pdata_all(pos, trial, rej, n) == [i \in 0 .. (n - 1) |-> trial[i]]

\* hpmc_update_pdata: the trial configuration replaces the configuration of
\* every particle that is not rejected
hpmc_update_pdata(pos, trial, rej, n) ==
    [i \in 0 .. (n - 1) |-> IF rej[i] THEN pos[i] ELSE trial[i]]

\* ---- host code of update()
\* the narrow phase would write the particle data in place
NarrowPhaseParticleDataInPlace(pos) == [i \in DOMAIN pos |-> pos[i] + 1]

\* the narrow phase holds positions and orientations with access_mode::read
NarrowPhaseParticleData(pos) == pos

\* the narrow phase would redraw the trial moves
NarrowPhaseTrialDataRedrawn(trial) == [i \in DOMAIN trial |-> trial[i] + 1]

\* the narrow phase holds the trial arrays with access_mode::read
NarrowPhaseTrialData(trial) == trial

\* the patch energy block is missing
AfterDepletantsNoPatch(patch) == "check_convergence"

\* what follows the depletants: the patch energy block if enabled
AfterDepletants(patch) == IF patch THEN "patch" ELSE "check_convergence"

\* the patch energy block would come after hpmc_check_convergence
AfterPatchSwap(patch) == "swap"

\* what follows the patch energy block: hpmc_check_convergence
AfterPatch(patch) == "check_convergence"

\* memcpy of reject_out_of_cell into reject replaced by a memset to 0
InitRejectZero(part, rej, rooc, n) ==
    [i \in 0 .. (n - 1) |->
        IF \E d \in 1 .. Len(part) : part[d][1] <= i /\ i < part[d][2]
        THEN FALSE ELSE rej[i]]

\* initialize reject flags: on every device range reject := reject_out_of_cell
InitReject(part, rej, rooc, n) ==
    [i \in 0 .. (n - 1) |->
        IF \E d \in 1 .. Len(part) : part[d][1] <= i /\ i < part[d][2]
        THEN rooc[i] ELSE rej[i]]

\* ... and reject_out := 0
InitRejectOut(part, rej_out, n) ==
    [i \in 0 .. (n - 1) |->
        IF \E d \in 1 .. Len(part) : part[d][1] <= i /\ i < part[d][2]
        THEN FALSE ELSE rej_out[i]]

\* reset condition flag: the memset is missing
ResetConditionStale(cond) == cond

\* reset condition flag
ResetCondition(cond) == 0

\* converged whatever the flag says
ConvergedAlways(cond) == TRUE

\* if (*h_condition.data == 0) converged = true
ConvergedTest(cond) == cond = 0

\* the model stops counting iterations two past the particle count
IterCap(n) == n + 2

\* the integrator between two steps: work particles-times-sweeps at most,
\* fugacity from fug; the per-device counters hold what earlier steps left
InitSweepState(work, fug, patch, prof) ==
    /\ N \in 0 .. work
    /\ m_prof \in prof
    /\ n_push = 0 /\ n_pop = 0
    /\ m_patch \in patch
    /\ patch_pairs = {}
    /\ m_nselect \in 1 .. work
    /\ N * m_nselect <= work
    /\ gpu_partition \in Partitions(N)
    /\ m_fugacity \in fug
    /\ m_ntrial \in (IF m_fugacity = 0 THEN {0} ELSE {0, 1})
    /\ pc = "idle" /\ i_sel = 0
    /\ global_box = NoBox
    /\ m_is_reversed = FALSE
    /\ m_update_order = <<>> /\ m_reverse_update_order = <<>>
    /\ overlaps = {}
    /\ depl = [i \in Particles |-> 0]
    /\ m_reject_out_of_cell = [i \in Particles |-> FALSE]
    /\ m_reject = [i \in Particles |-> FALSE]
    /\ m_reject_out = [i \in Particles |-> FALSE]
    /\ m_condition = 0 /\ converged = FALSE
    /\ m_max_len = 0 /\ m_req_len = 0
    /\ m_deltaF_int = [i \in Particles |-> 0]
    /\ lanes_done = {} /\ depl_ran = FALSE /\ depl_issued = FALSE
    /\ niter = 0 /\ n_retry = 0
    /\ postype = [i \in Particles |-> 0]
    /\ m_trial_postype = [i \in Particles |-> 0]
    /\ m_counters \in [1 .. Len(gpu_partition) ->
                          IF Len(gpu_partition) > 1 THEN {0, 1} ELSE {0}]
    /\ m_count_total = 0
    /\ n_shuffle = 0 /\ n_reduce = 0 /\ n_communicate = 0

InitHPMCState == InitSweepState(MaxWork, {0}, {FALSE}, BOOLEAN)

InitDeplState == InitSweepState(MaxWorkDepl, {0, 1}, BOOLEAN, {TRUE})

\* no DomainDecomposition is constructed
DDIdle ==
    /\ size = 1 /\ L = <<1, 1, 1>> /\ root = 0 /\ req = NoTriple
    /\ dpc = [r \in 0 .. (MaxP - 1) |-> "absent"]
    /\ m_n = [r \in 0 .. (MaxP - 1) |-> NoTriple]
    /\ m_grid_pos = [r \in 0 .. (MaxP - 1) |-> NoTriple]
    /\ fd_first = [n |-> NoTriple, min |-> 0, found |-> FALSE]
    /\ msg_error = 0
    /\ query = [rank |-> 0, dir |-> 0, res |-> 0, valid |-> FALSE]
    /\ bquery = NoBoundaryCall
    /\ lbox = NoBoxCall

InitHPMC == DDIdle /\ ToolsIdle /\ InitHPMCState

InitDepl == DDIdle /\ ToolsIdle /\ InitDeplState

\* update() is entered: the global box of this time step, as
\* m_pdata->getGlobalBox() returns it
UpdateEnter ==
    /\ pc = "idle"
    /\ \E npd \in NpdValues \X NpdValues \X NpdValues,
          per \in BOOLEAN \X BOOLEAN \X BOOLEAN, nd \in {2, 3} :
           global_box' = [npd |-> npd, periodic |-> per, ndim |-> nd]
    /\ pc' = "entered"
    /\ UNCHANGED <<N, m_nselect, gpu_partition, m_fugacity, m_ntrial,
                   i_sel, m_is_reversed, m_update_order,
                   m_reverse_update_order, overlaps, depl,
                   m_reject_out_of_cell, m_reject, m_reject_out,
                   m_condition, converged, m_max_len, m_req_len,
                   m_deltaF_int, lanes_done, depl_ran, depl_issued,
                   niter, n_retry, postype, m_trial_postype, m_counters,
                   m_count_total, n_shuffle, n_reduce, n_communicate,
                   m_patch, patch_pairs, m_prof, n_push, n_pop>>
    /\ UNCHANGED <<ddvars, tvars, cvars>>

\* getN() > 0: the minimum image check; on failure msg->error() and
\* throw std::runtime_error
BoxCheck ==
    /\ pc = "entered"
    /\ N > 0
    /\ IF BoxTooSmall(global_box, m_nominal_width)
       THEN pc' = "error" /\ UNCHANGED global_box
       ELSE pc' = "begin" /\ global_box' = NoBox
    /\ UNCHANGED <<N, m_nselect, gpu_partition, m_fugacity, m_ntrial,
                   i_sel, m_is_reversed, m_update_order,
                   m_reverse_update_order, overlaps, depl,
                   m_reject_out_of_cell, m_reject, m_reject_out,
                   m_condition, converged, m_max_len, m_req_len,
                   m_deltaF_int, lanes_done, depl_ran, depl_issued,
                   niter, n_retry, postype, m_trial_postype, m_counters,
                   m_count_total, n_shuffle, n_reduce, n_communicate,
                   m_patch, patch_pairs, m_prof, n_push, n_pop>>
    /\ UNCHANGED <<ddvars, tvars, cvars>>

\* getN() = 0: the block holding the check and the sweeps is skipped
SkipEmpty ==
    /\ pc = "entered"
    /\ N = 0
    /\ global_box' = NoBox
    /\ pc' = "wrap"
    /\ UNCHANGED <<N, m_nselect, gpu_partition, m_fugacity, m_ntrial,
                   i_sel, m_is_reversed, m_update_order,
                   m_reverse_update_order, overlaps, depl,
                   m_reject_out_of_cell, m_reject, m_reject_out,
                   m_condition, converged, m_max_len, m_req_len,
                   m_deltaF_int, lanes_done, depl_ran, depl_issued,
                   niter, n_retry, postype, m_trial_postype, m_counters,
                   m_count_total, n_shuffle, n_reduce, n_communicate,
                   m_patch, patch_pairs, m_prof, n_push, n_pop>>
    /\ UNCHANGED <<ddvars, tvars, cvars>>

\* update() up to the loop over nselect: m_prof->push if a profiler is attached,
\* m_update_order.resize(N), reset of
\* the per-device counters when ngpu > 1, and m_update_order.shuffle(timestep),
\* whose direction is one random bit
UpdateBegin ==
    /\ pc = "begin"
    /\ m_counters' = IF NumActiveGPUs > 1 THEN ResetCounters(m_counters)
                     ELSE m_counters
    /\ \E bit \in BOOLEAN :
          LET o == shuffle(resize([m_update_order |-> m_update_order,
                                   m_reverse_update_order |-> m_reverse_update_order,
                                   m_is_reversed |-> m_is_reversed], N), bit)
          IN /\ m_update_order' = o.m_update_order
             /\ m_reverse_update_order' = o.m_reverse_update_order
             /\ m_is_reversed' = o.m_is_reversed
    /\ n_shuffle' = n_shuffle + 1
    /\ n_push' = ProfilerCall(m_prof, n_push)
    /\ pc' = "gen_moves"
    /\ UNCHANGED <<N, m_nselect, gpu_partition, m_fugacity, m_ntrial,
                   global_box, i_sel, overlaps, depl,
                   m_reject_out_of_cell, m_reject, m_reject_out,
                   m_condition, converged, m_max_len, m_req_len,
                   m_deltaF_int, lanes_done, depl_ran, depl_issued,
                   niter, n_retry, postype, m_trial_postype,
                   m_count_total, n_reduce, n_communicate, m_patch,
                   patch_pairs, m_prof, n_pop>>
    /\ UNCHANGED <<ddvars, tvars, cvars>>

\* hpmc_gen_moves: one trial move per particle; the trial configurations fix
\* the overlap relation, reject_out_of_cell and the depletant contributions
\* of the sweep
GenMoves ==
    /\ pc = "gen_moves"
    /\ m_trial_postype' = [i \in Particles |-> postype[i] + 1]
    /\ \E ov \in SUBSET Pairs(N) : overlaps' = ov
    /\ \E rooc \in BoolVectors(N) : m_reject_out_of_cell' = rooc
    /\ \E d \in [Particles -> 0 .. (IF m_fugacity = 0 THEN 0 ELSE MaxDF)] : depl' = d
    /\ \E pp \in (IF m_patch THEN SUBSET Pairs(N) ELSE {{}}) : patch_pairs' = pp
    /\ \E bit \in BOOLEAN : m_is_reversed' = SweepDirection(m_is_reversed, bit)
    /\ converged' = FALSE
    /\ niter' = 0
    /\ pc' = "init_reject"
    /\ UNCHANGED <<N, m_nselect, gpu_partition, m_fugacity, m_ntrial,
                   global_box, i_sel, m_update_order,
                   m_reverse_update_order, m_reject, m_reject_out,
                   m_condition, m_max_len, m_req_len, m_deltaF_int,
                   lanes_done, depl_ran, depl_issued, n_retry, postype,
                   m_counters, m_count_total, n_shuffle, n_reduce,
                   n_communicate, m_patch, m_prof, n_push, n_pop>>
    /\ UNCHANGED <<ddvars, tvars, cvars>>

\* initialize reject flags (loop over the devices)
InitRejectFlags ==
    /\ pc = "init_reject"
    /\ m_reject' = InitReject(gpu_partition, m_reject, m_reject_out_of_cell, N)
    /\ m_reject_out' = InitRejectOut(gpu_partition, m_reject_out, N)
    /\ pc' = "iteration"
    /\ UNCHANGED <<N, m_nselect, gpu_partition, m_fugacity, m_ntrial,
                   global_box, i_sel, m_is_reversed, m_update_order,
                   m_reverse_update_order, overlaps, depl,
                   m_reject_out_of_cell, m_condition, converged,
                   m_max_len, m_req_len, m_deltaF_int, lanes_done,
                   depl_ran, depl_issued, niter, n_retry, postype,
                   m_trial_postype, m_counters, m_count_total, n_shuffle,
                   n_reduce, n_communicate, m_patch, patch_pairs, m_prof,
                   n_push, n_pop>>
    /\ UNCHANGED <<ddvars, tvars, cvars>>

\* top of while (!converged): reset the condition flag; top of
\* while (reallocate_smem): reset the free energy accumulators, launch the
\* narrow phase
BeginIteration ==
    /\ pc = "iteration"
    /\ ~converged
    /\ niter < IterCap(N)
    /\ m_condition' = ResetCondition(m_condition)
    /\ m_deltaF_int' = ResetDeltaF(m_deltaF_int, m_fugacity, m_ntrial)
    /\ lanes_done' = {}
    /\ depl_ran' = FALSE
    /\ pc' = "narrow_phase"
    /\ UNCHANGED <<N, m_nselect, gpu_partition, m_fugacity, m_ntrial,
                   global_box, i_sel, m_is_reversed, m_update_order,
                   m_reverse_update_order, overlaps, depl,
                   m_reject_out_of_cell, m_reject, m_reject_out,
                   converged, m_max_len, m_req_len, depl_issued, niter,
                   n_retry, postype, m_trial_postype, m_counters,
                   m_count_total, n_shuffle, n_reduce, n_communicate,
                   m_patch, patch_pairs, m_prof, n_push, n_pop>>
    /\ UNCHANGED <<ddvars, tvars, cvars>>

\* one lane of hpmc_narrow_phase, on the device whose range holds particle i
NarrowPhaseLane(idev, i) ==
    /\ pc = "narrow_phase"
    /\ getRange(gpu_partition, idev)[1] <= i /\ i < getRange(gpu_partition, idev)[2]
    /\ i \notin lanes_done
    /\ m_reject_out' = [m_reject_out EXCEPT ![i] =
            NarrowPhase(i, d_update_order_by_ptl, m_reject, m_reject_out_of_cell,
                        overlaps, N)]
    /\ lanes_done' = lanes_done \cup {i}
    /\ postype' = NarrowPhaseParticleData(postype)
    /\ m_trial_postype' = NarrowPhaseTrialData(m_trial_postype)
    /\ UNCHANGED <<N, m_nselect, gpu_partition, m_fugacity, m_ntrial, pc,
                   global_box, i_sel, m_is_reversed, m_update_order,
                   m_reverse_update_order, overlaps, depl,
                   m_reject_out_of_cell, m_reject, m_condition,
                   converged, m_max_len, m_req_len, m_deltaF_int,
                   depl_ran, depl_issued, niter, n_retry, m_counters,
                   m_count_total, n_shuffle, n_reduce, n_communicate,
                   m_patch, patch_pairs, m_prof, n_push, n_pop>>
    /\ UNCHANGED <<ddvars, tvars, cvars>>

\* ntrial = 0: generate_num_depletants, get_max_num_depletants and
\* hpmc_insert_depletants; an insertion of the full weight rejects the move
DepletantsDirect ==
    /\ pc = "narrow_phase"
    /\ lanes_done = Particles
    /\ ~depl_ran
    /\ ~SkipDepletants(m_fugacity)
    /\ m_ntrial = 0
    /\ m_reject_out' = InsertDepletants(m_reject_out, depl, N)
    /\ depl_ran' = TRUE
    /\ depl_issued' = TRUE
    /\ UNCHANGED <<N, m_nselect, gpu_partition, m_fugacity, m_ntrial, pc,
                   global_box, i_sel, m_is_reversed, m_update_order,
                   m_reverse_update_order, overlaps, depl,
                   m_reject_out_of_cell, m_reject, m_condition,
                   converged, m_max_len, m_req_len, m_deltaF_int,
                   lanes_done, niter, n_retry, postype, m_trial_postype,
                   m_counters, m_count_total, n_shuffle, n_reduce,
                   n_communicate, m_patch, patch_pairs, m_prof, n_push,
                   n_pop>>
    /\ UNCHANGED <<ddvars, tvars, cvars>>

\* ntrial > 0: generate_num_depletants_ntrial and the phase 1 and phase 2
\* kernels; they add to deltaF and report the scratch length they need.  A
\* run whose need exceeds m_max_len leaves any part of its sums in deltaF
DepletantsAuxiliary ==
    /\ pc = "narrow_phase"
    /\ lanes_done = Particles
    /\ ~depl_ran
    /\ ~SkipDepletants(m_fugacity)
    /\ m_ntrial # 0
    /\ \E r \in 0 .. MaxLen :
          /\ m_req_len' = ReportLength(m_req_len, r)
          /\ IF ReportLength(m_req_len, r) > m_max_len
             THEN \E part \in [Particles -> 0 .. MaxDF] :
                     /\ \A i \in Particles : part[i] <= depl[i]
                     /\ m_deltaF_int' = Accumulate(m_deltaF_int, part, N)
             ELSE m_deltaF_int' = Accumulate(m_deltaF_int, depl, N)
    /\ depl_ran' = TRUE
    /\ depl_issued' = TRUE
    /\ UNCHANGED <<N, m_nselect, gpu_partition, m_fugacity, m_ntrial, pc,
                   global_box, i_sel, m_is_reversed, m_update_order,
                   m_reverse_update_order, overlaps, depl,
                   m_reject_out_of_cell, m_reject, m_reject_out,
                   m_condition, converged, m_max_len, lanes_done, niter,
                   n_retry, postype, m_trial_postype, m_counters,
                   m_count_total, n_shuffle, n_reduce, n_communicate,
                   m_patch, patch_pairs, m_prof, n_push, n_pop>>
    /\ UNCHANGED <<ddvars, tvars, cvars>>

\* endMultiGPU, then: did the shared memory overflow?  If so grow m_max_len
\* and rerun the kernels from the top of while (reallocate_smem), otherwise
\* leave that loop
CheckReqLen ==
    /\ pc = "narrow_phase"
    /\ lanes_done = Particles
    /\ SkipDepletants(m_fugacity) \/ depl_ran
    /\ IF m_req_len > m_max_len
       THEN /\ n_retry < RetryCap
            /\ m_max_len' = GrowMaxLen(m_max_len, m_req_len)
            /\ n_retry' = n_retry + 1
            /\ m_deltaF_int' = ResetDeltaF(m_deltaF_int, m_fugacity, m_ntrial)
            /\ lanes_done' = {}
            /\ depl_ran' = FALSE
            /\ pc' = "narrow_phase"
       ELSE /\ pc' = IF have_auxilliary_variables THEN "accept"
                     ELSE AfterDepletants(m_patch)
            /\ UNCHANGED <<m_max_len, n_retry, m_deltaF_int, lanes_done, depl_ran>>
    /\ UNCHANGED <<N, m_nselect, gpu_partition, m_fugacity, m_ntrial,
                   global_box, i_sel, m_is_reversed, m_update_order,
                   m_reverse_update_order, overlaps, depl,
                   m_reject_out_of_cell, m_reject, m_reject_out,
                   m_condition, converged, m_req_len, depl_issued, niter,
                   postype, m_trial_postype, m_counters, m_count_total,
                   n_shuffle, n_reduce, n_communicate, m_patch,
                   patch_pairs, m_prof, n_push, n_pop>>
    /\ UNCHANGED <<ddvars, tvars, cvars>>

\* have_depletants && have_auxilliary_variables: the second overflow test
\* (continue restarts the iteration), then hpmc_depletants_accept
AcceptDepletants ==
    /\ pc = "accept"
    /\ IF m_req_len > m_max_len
       THEN /\ n_retry < RetryCap
            /\ m_max_len' = GrowMaxLen(m_max_len, m_req_len)
            /\ n_retry' = n_retry + 1
            /\ pc' = "iteration"
            /\ UNCHANGED <<m_reject_out, depl_issued>>
       ELSE /\ m_reject_out' = DepletantsAccept(m_reject_out, m_deltaF_int, N)
            /\ depl_issued' = TRUE
            /\ pc' = AfterDepletants(m_patch)
            /\ UNCHANGED <<m_max_len, n_retry>>
    /\ UNCHANGED <<N, m_nselect, gpu_partition, m_fugacity, m_ntrial,
                   global_box, i_sel, m_is_reversed, m_update_order,
                   m_reverse_update_order, overlaps, depl,
                   m_reject_out_of_cell, m_reject, m_condition,
                   converged, m_req_len, m_deltaF_int, lanes_done,
                   depl_ran, niter, postype, m_trial_postype, m_counters,
                   m_count_total, n_shuffle, n_reduce, n_communicate,
                   m_patch, patch_pairs, m_prof, n_push, n_pop>>
    /\ UNCHANGED <<ddvars, tvars, cvars>>

\* m_patch && !m_patch_log: computePatchEnergyGPU on the default stream
PatchEnergy ==
    /\ pc = "patch"
    /\ m_reject_out' = computePatchEnergyGPU(m_reject_out, d_update_order_by_ptl,
                                           m_reject, patch_pairs, N)
    /\ pc' = AfterPatch(m_patch)
    /\ UNCHANGED <<N, m_nselect, gpu_partition, m_fugacity, m_ntrial,
                   global_box, i_sel, m_is_reversed, m_update_order,
                   m_reverse_update_order, overlaps, depl,
                   m_reject_out_of_cell, m_reject, m_condition,
                   converged, m_max_len, m_req_len, m_deltaF_int,
                   lanes_done, depl_ran, depl_issued, niter, n_retry,
                   postype, m_trial_postype, m_counters, m_count_total,
                   n_shuffle, n_reduce, n_communicate, m_patch,
                   patch_pairs, m_prof, n_push, n_pop>>
    /\ UNCHANGED <<ddvars, tvars, cvars>>

\* hpmc_check_convergence
CheckConvergence ==
    /\ pc = "check_convergence"
    /\ m_condition' = CheckConvergenceFlag(m_condition, m_reject, m_reject_out, N)
    /\ pc' = "swap"
    /\ UNCHANGED <<N, m_nselect, gpu_partition, m_fugacity, m_ntrial,
                   global_box, i_sel, m_is_reversed, m_update_order,
                   m_reverse_update_order, overlaps, depl,
                   m_reject_out_of_cell, m_reject, m_reject_out,
                   converged, m_max_len, m_req_len, m_deltaF_int,
                   lanes_done, depl_ran, depl_issued, niter, n_retry,
                   postype, m_trial_postype, m_counters, m_count_total,
                   n_shuffle, n_reduce, n_communicate, m_patch,
                   patch_pairs, m_prof, n_push, n_pop>>
    /\ UNCHANGED <<ddvars, tvars, cvars>>

\* flip reject flags, then read the condition flag on the host
SwapAndTest ==
    /\ pc = "swap"
    /\ m_reject' = m_reject_out
    /\ m_reject_out' = m_reject
    /\ converged' = ConvergedTest(m_condition)
    /\ niter' = niter + 1
    /\ pc' = IF ConvergedTest(m_condition) THEN "update_pdata" ELSE "iteration"
    /\ UNCHANGED <<N, m_nselect, gpu_partition, m_fugacity, m_ntrial,
                   global_box, i_sel, m_is_reversed, m_update_order,
                   m_reverse_update_order, overlaps, depl,
                   m_reject_out_of_cell, m_condition, m_max_len,
                   m_req_len, m_deltaF_int, lanes_done, depl_ran,
                   depl_issued, n_retry, postype, m_trial_postype,
                   m_counters, m_count_total, n_shuffle, n_reduce,
                   n_communicate, m_patch, patch_pairs, m_prof, n_push,
                   n_pop>>
    /\ UNCHANGED <<ddvars, tvars, cvars>>

\* hpmc_update_pdata: commit the trial configuration of every particle that
\* is not rejected and count the attempts, per device when ngpu > 1; end of
\* the body of the loop over nselect
UpdatePdata ==
    /\ pc = "update_pdata"
    /\ postype' = hpmc_update_pdata(postype, m_trial_postype, m_reject, N)
    /\ IF NumActiveGPUs > 1
       THEN /\ m_counters' = CountMoves(m_counters, gpu_partition)
            /\ UNCHANGED m_count_total
       ELSE /\ m_count_total' = m_count_total + N
            /\ UNCHANGED m_counters
    /\ n_communicate' = CommunicateInSweep(n_communicate)
    /\ i_sel' = i_sel + 1
    /\ pc' = IF i_sel + 1 < m_nselect THEN "gen_moves" ELSE "reduce"
    /\ UNCHANGED <<N, m_nselect, gpu_partition, m_fugacity, m_ntrial,
                   global_box, m_is_reversed, m_update_order,
                   m_reverse_update_order, overlaps, depl,
                   m_reject_out_of_cell, m_reject, m_reject_out,
                   m_condition, converged, m_max_len, m_req_len,
                   m_deltaF_int, lanes_done, depl_ran, depl_issued,
                   niter, n_retry, m_trial_postype, n_shuffle, n_reduce,
                   m_patch, patch_pairs, m_prof, n_push, n_pop>>
    /\ UNCHANGED <<ddvars, tvars, cvars>>

\* after the loop over nselect: reduce_counters when ngpu > 1
ReduceCounters ==
    /\ pc = "reduce"
    /\ IF NumActiveGPUs > 1
       THEN /\ m_count_total' = reduce_counters(m_count_total, m_counters)
            /\ n_reduce' = n_reduce + 1
       ELSE UNCHANGED <<m_count_total, n_reduce>>
    /\ pc' = "wrap"
    /\ UNCHANGED <<N, m_nselect, gpu_partition, m_fugacity, m_ntrial,
                   global_box, i_sel, m_is_reversed, m_update_order,
                   m_reverse_update_order, overlaps, depl,
                   m_reject_out_of_cell, m_reject, m_reject_out,
                   m_condition, converged, m_max_len, m_req_len,
                   m_deltaF_int, lanes_done, depl_ran, depl_issued,
                   niter, n_retry, postype, m_trial_postype, m_counters,
                   n_shuffle, n_communicate, m_patch, patch_pairs,
                   m_prof, n_push, n_pop>>
    /\ UNCHANGED <<ddvars, tvars, cvars>>

\* the tail of update(): hpmc_shift with a zero shift when getN() > 0,
\* m_prof->pop if a profiler is attached, then this->communicate(true)
WrapAndCommunicate ==
    /\ pc = "wrap"
    /\ n_pop' = ProfilerCall(m_prof, n_pop)
    /\ n_communicate' = n_communicate + 1
    /\ pc' = "done"
    /\ UNCHANGED <<N, m_nselect, gpu_partition, m_fugacity, m_ntrial,
                   global_box, i_sel, m_is_reversed, m_update_order,
                   m_reverse_update_order, overlaps, depl,
                   m_reject_out_of_cell, m_reject, m_reject_out,
                   m_condition, converged, m_max_len, m_req_len,
                   m_deltaF_int, lanes_done, depl_ran, depl_issued,
                   niter, n_retry, postype, m_trial_postype, m_counters,
                   m_count_total, n_shuffle, n_reduce, m_patch,
                   patch_pairs, m_prof, n_push>>
    /\ UNCHANGED <<ddvars, tvars, cvars>>

NextHPMC ==
    \/ UpdateEnter
    \/ BoxCheck
    \/ SkipEmpty
    \/ UpdateBegin
    \/ GenMoves
    \/ InitRejectFlags
    \/ BeginIteration
    \/ \E idev \in 0 .. (NumActiveGPUs - 1), i \in Particles : NarrowPhaseLane(idev, i)
    \/ CheckReqLen
    \/ CheckConvergence
    \/ SwapAndTest
    \/ UpdatePdata
    \/ ReduceCounters
    \/ WrapAndCommunicate

SpecHPMC == InitHPMC /\ [][NextHPMC]_vars

NextDepl ==
    \/ NextHPMC
    \/ DepletantsDirect
    \/ DepletantsAuxiliary
    \/ AcceptDepletants
    \/ PatchEnergy

SpecDepl == InitDepl /\ [][NextDepl]_vars

\* =========================================================================
\* An UpdateOrderGPU object under any sequence of resize and shuffle calls
\* =========================================================================
MaxOrder == 2   \* largest size passed to resize
MaxCalls == 3   \* longest sequence of calls explored
MaxStep == 1    \* largest timestep passed to shuffle

\* the bit UniformIntDistribution(1) draws from the generator seeded with
\* (HPMCMonoShuffle, m_seed, timestep, select), for each timestep
RandomBits == [0 .. MaxStep -> BOOLEAN]

InitOrder ==
    /\ DDIdle /\ HPMCIdle
    /\ wscan = <<>> /\ pfilter = <<>> /\ dstreams = <<>>
    /\ ComponentsIdle
    /\ \E n \in 0 .. MaxOrder, rng \in RandomBits :
          uorder = [o |-> UpdateOrderGPU(n), calls |-> <<>>, last |-> "ctor",
                    arg |-> n, ctor |-> n, rng |-> rng]

\* a call of resize(n)
CallResize(n) ==
    /\ Len(uorder.calls) < MaxCalls
    /\ uorder' = [uorder EXCEPT !.o = resize(uorder.o, n),
                                 !.calls = Append(uorder.calls, <<"resize", n>>),
                                 !.last = "resize", !.arg = n]
    /\ UNCHANGED <<cvars, ddvars, hvars, wscan, pfilter, dstreams>>

\* a call of shuffle(timestep)
CallShuffle(t) ==
    /\ Len(uorder.calls) < MaxCalls
    /\ uorder' = [uorder EXCEPT !.o = shuffle(uorder.o, uorder.rng[t]),
                                 !.calls = Append(uorder.calls, <<"shuffle", t>>),
                                 !.last = "shuffle", !.arg = t]
    /\ UNCHANGED <<cvars, ddvars, hvars, wscan, pfilter, dstreams>>

NextOrder ==
    \/ \E n \in 0 .. MaxOrder : CallResize(n)
    \/ \E t \in 0 .. MaxStep : CallShuffle(t)

SpecOrder == InitOrder /\ [][NextOrder]_vars

\* =========================================================================
\* test_warp_scan on one row of data: the kernel warp_scan with tpp threads
\* per row, then the loops of the test that compare its output
\* =========================================================================
MaxWidth == 3   \* largest width of a row drawn freely
MaxVal == 2     \* largest element of a row drawn freely

\* the rows the test fills in
TestRow1 == [c \in 0 .. 4 |-> c + 1]

TestRow2 == (0 :> 0 @@ 1 :> 1 @@ 2 :> 1 @@ 3 :> 0 @@ 4 :> 0)

\* threads per row of test_warp_scan_1 .. test_warp_scan_32
TppValues == {1, 2, 4, 8, 16, 32}

Rows ==
    UNION {[0 .. (w - 1) -> 0 .. MaxVal] : w \in 1 .. MaxWidth}
        \cup {TestRow1, TestRow2}

Width(vec) == Cardinality(DOMAIN vec)

\* niter = (width + tpp - 1) / tpp
ScanIterations(w, tpp) == (w + tpp - 1) \div tpp

\* what thread t loads in iteration k: its element, or 0 past the row's end
ThreadData(vec, w, tpp, k, t) ==
    IF k * tpp + t < w THEN vec[k * tpp + t] ELSE 0

\* one step of the scan over the tpp threads: thread t adds the value held
\* by thread t - offset
ShuffleUp(x, offset, tpp) ==
    [t \in 0 .. (tpp - 1) |-> IF t >= offset THEN x[t] + x[t - offset] ELSE x[t]]

\* the expected sums asserted for the rows the test fills in
ExpectedRowSum(vec) == IF vec = TestRow1 THEN 15 ELSE 2

\* the running sum would be carried from one scan iteration to the next
OracleIterationStartCarry(sum) == sum

\* int sum = 0 at the top of each expected scan iteration
OracleIterationStart(sum) == 0

\* if (cntr < width) sum += h_vec.data[i * width + cntr]
OracleAdd(sum, vec, w, cntr) == IF cntr < w THEN sum + vec[cntr] ELSE sum

InitScan ==
    /\ DDIdle /\ HPMCIdle
    /\ uorder = <<>> /\ pfilter = <<>> /\ dstreams = <<>>
    /\ ComponentsIdle
    /\ \E vec \in Rows, tpp \in TppValues :
          wscan = [vec |-> vec, w |-> Width(vec), tpp |-> tpp, pc |-> "load",
                   iter |-> 0, offset |-> 0, data |-> <<>>, x |-> <<>>,
                   scan |-> <<>>, my_sum |-> 0, sum |-> -1,
                   t_iter |-> 0, t_tid |-> 0, t_cntr |-> 0, t_sum |-> 0,
                   ok |-> TRUE]

\* kernel: the threads of the row load the elements of the next chunk
ScanLoad ==
    /\ wscan.pc = "load"
    /\ wscan.iter < ScanIterations(wscan.w, wscan.tpp)
    /\ LET d == [t \in 0 .. (wscan.tpp - 1) |->
                    ThreadData(wscan.vec, wscan.w, wscan.tpp, wscan.iter, t)]
       IN wscan' = [wscan EXCEPT !.data = d, !.x = d, !.offset = 1, !.pc = "shuffle"]
    /\ UNCHANGED <<cvars, ddvars, hvars, uorder, pfilter, dstreams>>

\* kernel: one step of the warp scan
ScanShuffle ==
    /\ wscan.pc = "shuffle"
    /\ wscan.offset < wscan.tpp
    /\ wscan' = [wscan EXCEPT !.x = ShuffleUp(wscan.x, wscan.offset, wscan.tpp),
                              !.offset = 2 * wscan.offset]
    /\ UNCHANGED <<cvars, ddvars, hvars, uorder, pfilter, dstreams>>

\* kernel: every thread writes its exclusive prefix, slot tpp takes the total
\* of the chunk
ScanWrite ==
    /\ wscan.pc = "shuffle"
    /\ wscan.offset >= wscan.tpp
    /\ LET total == wscan.x[wscan.tpp - 1]
           out == [e \in (0 .. wscan.tpp) \X {wscan.iter} |->
                      IF e[1] = wscan.tpp THEN total
                      ELSE wscan.x[e[1]] - wscan.data[e[1]]]
       IN wscan' = [wscan EXCEPT !.scan = out @@ wscan.scan,
                                 !.my_sum = wscan.my_sum + total,
                                 !.iter = wscan.iter + 1, !.pc = "load"]
    /\ UNCHANGED <<cvars, ddvars, hvars, uorder, pfilter, dstreams>>

\* kernel: the row sum is written
ScanWriteSum ==
    /\ wscan.pc = "load"
    /\ wscan.iter = ScanIterations(wscan.w, wscan.tpp)
    /\ wscan' = [wscan EXCEPT !.sum = wscan.my_sum, !.pc = "test_sum"]
    /\ UNCHANGED <<cvars, ddvars, hvars, uorder, pfilter, dstreams>>

\* test: sums should always be the same regardless of the number of threads
TestSum ==
    /\ wscan.pc = "test_sum"
    /\ wscan' = [wscan EXCEPT
            !.ok = wscan.ok /\ (wscan.vec \in {TestRow1, TestRow2} =>
                                  wscan.sum = ExpectedRowSum(wscan.vec)),
            !.pc = "test_iter"]
    /\ UNCHANGED <<cvars, ddvars, hvars, uorder, pfilter, dstreams>>

\* test: top of the loop over the expected scan iterations
TestIteration ==
    /\ wscan.pc = "test_iter"
    /\ IF wscan.t_iter < ScanIterations(wscan.w, wscan.tpp)
       THEN wscan' = [wscan EXCEPT !.t_sum = OracleIterationStart(wscan.t_sum),
                                   !.t_tid = 0, !.pc = "test_tid"]
       ELSE wscan' = [wscan EXCEPT !.pc = "done"]
    /\ UNCHANGED <<cvars, ddvars, hvars, uorder, pfilter, dstreams>>

\* test: one pass of the loop over tid, and the assertion on slot tpp after
\* the last
TestThread ==
    /\ wscan.pc = "test_tid"
    /\ IF wscan.t_tid < wscan.tpp
       THEN wscan' = [wscan EXCEPT
               !.ok = wscan.ok /\ wscan.scan[<<wscan.t_tid, wscan.t_iter>>] = wscan.t_sum,
               !.t_sum = OracleAdd(wscan.t_sum, wscan.vec, wscan.w, wscan.t_cntr),
               !.t_cntr = wscan.t_cntr + 1,
               !.t_tid = wscan.t_tid + 1]
       ELSE wscan' = [wscan EXCEPT
               !.ok = wscan.ok /\ wscan.scan[<<wscan.tpp, wscan.t_iter>>] = wscan.t_sum,
               !.t_iter = wscan.t_iter + 1,
               !.pc = "test_iter"]
    /\ UNCHANGED <<cvars, ddvars, hvars, uorder, pfilter, dstreams>>

NextScan ==
    \/ ScanLoad
    \/ ScanShuffle
    \/ ScanWrite
    \/ ScanWriteSum
    \/ TestSum
    \/ TestIteration
    \/ TestThread

SpecScan == InitScan /\ [][NextScan]_vars

\* =========================================================================
\* ParticleFilterIntersection::getSelectedTags on the tag lists of two filters
\* =========================================================================
MaxTag == 3     \* number of particle tags explored

\* std::sort: insertion of x into an ascending sequence
RECURSIVE InsertSorted(_, _)
InsertSorted(x, sq) ==
    IF sq = <<>> THEN <<x>>
    ELSE IF x < Head(sq) THEN <<x>> \o sq
    ELSE <<Head(sq)>> \o InsertSorted(x, Tail(sq))

RECURSIVE StdSort(_)
StdSort(sq) == IF sq = <<>> THEN <<>> ELSE InsertSorted(Head(sq), StdSort(Tail(sq)))

\* std::set_intersection of two ranges from positions i and j on: the loop
\* advances in the range with the smaller element and copies an element
\* found in both
RECURSIVE set_intersection(_, _, _, _, _)
set_intersection(X, Y, i, j, out) ==
    IF i > Len(X) \/ j > Len(Y) THEN out
    ELSE IF X[i] < Y[j] THEN set_intersection(X, Y, i + 1, j, out)
    ELSE IF Y[j] < X[i] THEN set_intersection(X, Y, i, j + 1, out)
    ELSE set_intersection(X, Y, i + 1, j + 1, Append(out, X[i]))

\* getSelectedTags without the sort of Y
getSelectedTagsNoSortY(X, Y) == set_intersection(StdSort(X), Y, 1, 1, <<>>)

\* getSelectedTags: X and Y are the lists m_f and m_g return; tags.resize
\* cuts the vector to what set_intersection has written
getSelectedTags(X, Y) == set_intersection(StdSort(X), StdSort(Y), 1, 1, <<>>)

\* the tag lists a filter can return: every selected tag once, in any order
RECURSIVE TagLists(_)
TagLists(T) ==
    {<<>>} \cup UNION {{<<t>> \o l : l \in TagLists(T \ {t})} : t \in T}

NotCalled == <<-1>>

InitFilter ==
    /\ DDIdle /\ HPMCIdle
    /\ uorder = <<>> /\ wscan = <<>> /\ dstreams = <<>>
    /\ ComponentsIdle
    /\ \E X \in TagLists(0 .. (MaxTag - 1)), Y \in TagLists(0 .. (MaxTag - 1)) :
          pfilter = [X |-> X, Y |-> Y, fg |-> NotCalled, gf |-> NotCalled,
                     ff |-> NotCalled]

\* ParticleFilterIntersection(f, g).getSelectedTags(sysdef)
CallIntersectFG ==
    /\ pfilter.fg = NotCalled
    /\ pfilter' = [pfilter EXCEPT !.fg = getSelectedTags(pfilter.X, pfilter.Y)]
    /\ UNCHANGED <<cvars, ddvars, hvars, uorder, wscan, dstreams>>

\* ParticleFilterIntersection(g, f).getSelectedTags(sysdef)
CallIntersectGF ==
    /\ pfilter.gf = NotCalled
    /\ pfilter' = [pfilter EXCEPT !.gf = getSelectedTags(pfilter.Y, pfilter.X)]
    /\ UNCHANGED <<cvars, ddvars, hvars, uorder, wscan, dstreams>>

\* ParticleFilterIntersection(f, f).getSelectedTags(sysdef)
CallIntersectFF ==
    /\ pfilter.ff = NotCalled
    /\ pfilter' = [pfilter EXCEPT !.ff = getSelectedTags(pfilter.X, pfilter.X)]
    /\ UNCHANGED <<cvars, ddvars, hvars, uorder, wscan, dstreams>>

NextFilter == CallIntersectFG \/ CallIntersectGF \/ CallIntersectFF

SpecFilter == InitFilter /\ [][NextFilter]_vars

\* =========================================================================
\* Streams and events of the auxiliary depletant insertion of one type pair
\* (the ntrial > 0 branch of update()): per device a parent stream
\* m_depletant_streams, the worker streams m_depletant_streams_phase1 and
\* _phase2, and the events m_sync, m_sync_phase1, m_sync_phase2.  A stream
\* executes its operations in the order of issue; the streams of a device run
\* independently of each other and of the host.
\* =========================================================================
MaxDev == 2    \* largest number of active devices explored

Devs(n) == 0 .. (n - 1)

StreamKinds == {"parent", "s1", "s2"}

EventNames == {"m_sync", "m_sync_phase1", "m_sync_phase2"}

KernelNames == {"memset", "generate", "max", "phase1", "phase2", "next"}

\* kernel launch on stream s: the kernel is queued behind the stream's work
LaunchKernel(x, s, name, d) ==
    [x EXCEPT !.q[s] = Append(@, <<"kernel", name, d>>),
              !.k[<<name, d>>] = "queued"]

\* hipEventRecord(e, s)
hipEventRecord(x, e, s) ==
    [x EXCEPT !.q[s] = Append(@, <<"record", e[1], e[2]>>),
              !.ev[e] = "pending"]

\* hipStreamWaitEvent(s, e, 0): s waits for the work captured by the latest
\* record of e; no work is captured by an event never recorded
hipStreamWaitEvent(x, s, e) ==
    IF x.ev[e] = "none" THEN x
    ELSE [x EXCEPT !.q[s] = Append(@, <<"wait", e[1], e[2]>>)]

\* sync those streams with the parent stream: s2 is not made to wait
SyncWorkerStreamsNoS2(x, d) ==
    hipStreamWaitEvent(
        hipEventRecord(x, <<"m_sync", d>>, <<"parent", d>>),
        <<"s1", d>>, <<"m_sync", d>>)

\* sync those streams with the parent stream (one pass of the loop over idev)
SyncWorkerStreams(x, d) ==
    hipStreamWaitEvent(
        hipStreamWaitEvent(
            hipEventRecord(x, <<"m_sync", d>>, <<"parent", d>>),
            <<"s1", d>>, <<"m_sync", d>>),
        <<"s2", d>>, <<"m_sync", d>>)

\* wait for worker streams to complete: the parent does not wait for phase 2
JoinWorkerStreamsNoPhase2(x, d) ==
    hipStreamWaitEvent(
        hipEventRecord(
            hipEventRecord(x, <<"m_sync_phase1", d>>, <<"s1", d>>),
            <<"m_sync_phase2", d>>, <<"s2", d>>),
        <<"parent", d>>, <<"m_sync_phase1", d>>)

\* wait for worker streams to complete (one pass of the loop over idev)
JoinWorkerStreams(x, d) ==
    hipStreamWaitEvent(
        hipStreamWaitEvent(
            hipEventRecord(
                hipEventRecord(x, <<"m_sync_phase1", d>>, <<"s1", d>>),
                <<"m_sync_phase2", d>>, <<"s2", d>>),
            <<"parent", d>>, <<"m_sync_phase1", d>>),
        <<"parent", d>>, <<"m_sync_phase2", d>>)

\* a kernel driver launches its kernel on every device, each on the stream
\* of kind kind of that device
RECURSIVE LaunchOnAll(_, _, _, _)
LaunchOnAll(x, kind, name, n) ==
    IF n = 0 THEN x
    ELSE LaunchOnAll(LaunchKernel(x, <<kind, n - 1>>, name, n - 1), kind, name, n - 1)

StreamsIdle(n) ==
    [pc |-> "memset", idev |-> 0, ndev |-> n,
     q |-> [s \in StreamKinds \X Devs(n) |-> <<>>],
     ev |-> [e \in EventNames \X Devs(n) |-> "none"],
     k |-> [kn \in KernelNames \X Devs(n) |-> "none"]]

InitStreams ==
    /\ DDIdle /\ HPMCIdle
    /\ uorder = <<>> /\ wscan = <<>> /\ pfilter = <<>>
    /\ ComponentsIdle
    /\ \E n \in 1 .. MaxDev : dstreams = StreamsIdle(n)

\* reset free energy accumulators: hipMemsetAsync of the pair's deltaF range
\* of every device on the parent stream of that device
HostMemset ==
    /\ dstreams.pc = "memset"
    /\ dstreams' = [LaunchOnAll(dstreams, "parent", "memset", dstreams.ndev)
                        EXCEPT !.pc = "generate"]
    /\ UNCHANGED <<cvars, ddvars, hvars, uorder, wscan, pfilter>>

\* generate_num_depletants_ntrial and get_max_num_depletants_ntrial on the
\* parent streams
HostGenerate ==
    /\ dstreams.pc = "generate"
    /\ dstreams' = [LaunchOnAll(
                        LaunchOnAll(dstreams, "parent", "generate", dstreams.ndev),
                        "parent", "max", dstreams.ndev)
                        EXCEPT !.pc = "sync", !.idev = dstreams.ndev - 1]
    /\ UNCHANGED <<cvars, ddvars, hvars, uorder, wscan, pfilter>>

\* for (idev = size - 1; idev >= 0; --idev): record m_sync, s1 and s2 wait
HostSync ==
    /\ dstreams.pc = "sync"
    /\ dstreams' = [SyncWorkerStreams(dstreams, dstreams.idev)
                        EXCEPT !.pc = IF dstreams.idev = 0 THEN "phase1" ELSE "sync",
                               !.idev = IF dstreams.idev = 0 THEN 0 ELSE dstreams.idev - 1]
    /\ UNCHANGED <<cvars, ddvars, hvars, uorder, wscan, pfilter>>

\* hpmc_depletants_auxilliary_phase1 on the streams m_depletant_streams_phase1
HostPhase1 ==
    /\ dstreams.pc = "phase1"
    /\ dstreams' = [LaunchOnAll(dstreams, "s1", "phase1", dstreams.ndev)
                        EXCEPT !.pc = "phase2"]
    /\ UNCHANGED <<cvars, ddvars, hvars, uorder, wscan, pfilter>>

\* hpmc_depletants_auxilliary_phase2 on the streams m_depletant_streams_phase2
HostPhase2 ==
    /\ dstreams.pc = "phase2"
    /\ dstreams' = [LaunchOnAll(dstreams, "s2", "phase2", dstreams.ndev)
                        EXCEPT !.pc = "join", !.idev = dstreams.ndev - 1]
    /\ UNCHANGED <<cvars, ddvars, hvars, uorder, wscan, pfilter>>

\* for (idev = size - 1; idev >= 0; --idev): record the phase events, the
\* parent stream waits for both
HostJoin ==
    /\ dstreams.pc = "join"
    /\ dstreams' = [JoinWorkerStreams(dstreams, dstreams.idev)
                        EXCEPT !.pc = IF dstreams.idev = 0 THEN "next" ELSE "join",
                               !.idev = IF dstreams.idev = 0 THEN 0 ELSE dstreams.idev - 1]
    /\ UNCHANGED <<cvars, ddvars, hvars, uorder, wscan, pfilter>>

\* the work issued next on the parent streams
HostNext ==
    /\ dstreams.pc = "next"
    /\ dstreams' = [LaunchOnAll(dstreams, "parent", "next", dstreams.ndev)
                        EXCEPT !.pc = "issued"]
    /\ UNCHANGED <<cvars, ddvars, hvars, uorder, wscan, pfilter>>

\* the device starts the kernel at the head of stream s
KernelStart(s) ==
    /\ dstreams.q[s] # <<>>
    /\ Head(dstreams.q[s])[1] = "kernel"
    /\ dstreams.k[<<Head(dstreams.q[s])[2], Head(dstreams.q[s])[3]>>] = "queued"
    /\ dstreams' = [dstreams EXCEPT
            !.k[<<Head(dstreams.q[s])[2], Head(dstreams.q[s])[3]>>] = "running"]
    /\ UNCHANGED <<cvars, ddvars, hvars, uorder, wscan, pfilter>>

\* the kernel at the head of stream s completes
KernelFinish(s) ==
    /\ dstreams.q[s] # <<>>
    /\ Head(dstreams.q[s])[1] = "kernel"
    /\ dstreams.k[<<Head(dstreams.q[s])[2], Head(dstreams.q[s])[3]>>] = "running"
    /\ dstreams' = [dstreams EXCEPT
            !.k[<<Head(dstreams.q[s])[2], Head(dstreams.q[s])[3]>>] = "done",
            !.q[s] = Tail(@)]
    /\ UNCHANGED <<cvars, ddvars, hvars, uorder, wscan, pfilter>>

\* stream s reaches a recorded event: the event completes
EventComplete(s) ==
    /\ dstreams.q[s] # <<>>
    /\ Head(dstreams.q[s])[1] = "record"
    /\ dstreams' = [dstreams EXCEPT
            !.ev[<<Head(dstreams.q[s])[2], Head(dstreams.q[s])[3]>>] = "done",
            !.q[s] = Tail(@)]
    /\ UNCHANGED <<cvars, ddvars, hvars, uorder, wscan, pfilter>>

\* stream s passes a wait once the event has completed
WaitPass(s) ==
    /\ dstreams.q[s] # <<>>
    /\ Head(dstreams.q[s])[1] = "wait"
    /\ dstreams.ev[<<Head(dstreams.q[s])[2], Head(dstreams.q[s])[3]>>] = "done"
    /\ dstreams' = [dstreams EXCEPT !.q[s] = Tail(@)]
    /\ UNCHANGED <<cvars, ddvars, hvars, uorder, wscan, pfilter>>

NextStreams ==
    \/ HostMemset
    \/ HostGenerate
    \/ HostSync
    \/ HostPhase1
    \/ HostPhase2
    \/ HostJoin
    \/ HostNext
    \/ \E s \in StreamKinds \X Devs(dstreams.ndev) : KernelStart(s)
    \/ \E s \in StreamKinds \X Devs(dstreams.ndev) : KernelFinish(s)
    \/ \E s \in StreamKinds \X Devs(dstreams.ndev) : EventComplete(s)
    \/ \E s \in StreamKinds \X Devs(dstreams.ndev) : WaitPass(s)

SpecStreams == InitStreams /\ [][NextStreams]_vars

\* =========================================================================
\* The per-type-pair tables of streams and events of IntegratorHPMCMonoGPU:
\* built by the constructor, rebuilt by slotNumTypesChange, indexed by update()
\* =========================================================================
MaxTypes == 3    \* largest number of particle types explored
MaxSlot == 2     \* most calls of slotNumTypesChange explored

TableNames == {"m_depletant_streams", "m_depletant_streams_phase1",
               "m_depletant_streams_phase2", "m_sync", "m_sync_phase1",
               "m_sync_phase2"}

\* m_depletant_idx(itype, jtype) and m_depletant_idx.getNumElements()
DepletantIdx(nt, i, j) == j * nt + i

DepletantIdxNumElements(nt) == nt * nt

\* resize to getNumElements() entries, each resized to getNumActiveGPUs() and
\* filled by hipStreamCreate or hipEventCreateWithFlags
CreateTable(nt, nd) ==
    [k \in 0 .. (DepletantIdxNumElements(nt) - 1) |-> [d \in 0 .. (nd - 1) |-> "valid"]]

\* the constructor: all six tables
ConstructTables(nt, nd) == [name \in TableNames |-> CreateTable(nt, nd)]

\* slotNumTypesChange: nothing if the number of types did not change;
\* otherwise the streams of m_depletant_streams are destroyed and the table is
\* resized and filled again; the other five tables are not touched
slotNumTypesChange(t, old_ntypes, nt, nd) ==
    IF nt # old_ntypes
    THEN [t EXCEPT !["m_depletant_streams"] = CreateTable(nt, nd)]
    ELSE t

\* update() indexes table name with the pair (itype, jtype) and device idev:
\* the entry exists and holds a stream or event that was not destroyed
ValidEntry(t, name, nt, i, j, d) ==
    /\ DepletantIdx(nt, i, j) \in DOMAIN t[name]
    /\ d \in DOMAIN t[name][DepletantIdx(nt, i, j)]
    /\ t[name][DepletantIdx(nt, i, j)][d] = "valid"

InitTables ==
    /\ DDIdle /\ HPMCIdle
    /\ uorder = <<>> /\ wscan = <<>> /\ pfilter = <<>> /\ dstreams = <<>>
    /\ thermo = <<>> /\ imd = <<>> /\ pcomm = <<>>
    /\ \E nt \in 1 .. MaxTypes, nd \in 1 .. MaxDev :
          stream_tables = [ntypes |-> nt, ndev |-> nd, t |-> ConstructTables(nt, nd),
                           nslot |-> 0, used |-> <<>>, fault |-> FALSE]

\* the number of types changes to nt and the signal calls slotNumTypesChange
CallSlotNumTypesChange(nt) ==
    /\ stream_tables.nslot < MaxSlot
    /\ stream_tables' =
          [stream_tables EXCEPT
              !.t = slotNumTypesChange(stream_tables.t, stream_tables.ntypes, nt,
                                       stream_tables.ndev),
              !.ntypes = nt, !.nslot = @ + 1, !.used = <<>>, !.fault = FALSE]
    /\ UNCHANGED <<ddvars, hvars, tvars, thermo, imd, pcomm>>

\* update(): the fork and join of the pair (itype, jtype), jtype >= itype, on
\* every device; fault records an index out of range or a destroyed stream
UpdateUsesTables(i, j) ==
    /\ i <= j
    /\ stream_tables' =
          [stream_tables EXCEPT
              !.used = <<i, j>>,
              !.fault = ~(\A name \in TableNames, d \in 0 .. (stream_tables.ndev - 1) :
                            ValidEntry(stream_tables.t, name, stream_tables.ntypes,
                                       i, j, d))]
    /\ UNCHANGED <<ddvars, hvars, tvars, thermo, imd, pcomm>>

NextTables ==
    \/ \E nt \in 1 .. MaxTypes : CallSlotNumTypesChange(nt)
    \/ \E i \in 0 .. (stream_tables.ntypes - 1), j \in 0 .. (stream_tables.ntypes - 1) :
          UpdateUsesTables(i, j)

SpecTables == InitTables /\ [][NextTables]_vars

\* =========================================================================
\* update(): the split of the local particles over the ranks of the particle
\* communicator m_particle_comm, in unsigned int arithmetic
\* =========================================================================
WordBits == 4    \* bits of unsigned int explored
MaxComm == 3     \* largest size of the particle communicator explored

Word == 2 ^ WordBits

\* the value an unsigned int holds
Unsigned(x) == x % Word

\* nparticles_rank without the "+ 1"
nparticles_rank_floor(n, sz) == Unsigned(n \div sz)

\* nparticles_rank = getN()/particle_comm_size + 1
nparticles_rank(n, sz) == Unsigned((n \div sz) + 1)

\* offset = (rank*nparticles_rank < getN()) ? rank*nparticles_rank : getN()
SplitOffset(n, sz, r) ==
    IF Unsigned(r * nparticles_rank(n, sz)) < n
    THEN Unsigned(r * nparticles_rank(n, sz)) ELSE n

\* np = ((offset + nparticles_rank) < getN()) ? nparticles_rank : (getN() - offset)
SplitLength(n, sz, r) ==
    IF Unsigned(SplitOffset(n, sz, r) + nparticles_rank(n, sz)) < n
    THEN nparticles_rank(n, sz)
    ELSE Unsigned(n - SplitOffset(n, sz, r))

NoRange == <<-1, -1>>

InitSplit ==
    /\ DDIdle /\ HPMCIdle
    /\ uorder = <<>> /\ wscan = <<>> /\ pfilter = <<>> /\ dstreams = <<>>
    /\ stream_tables = <<>> /\ thermo = <<>> /\ imd = <<>>
    /\ \E n \in 1 .. (Word - 1), sz \in 1 .. MaxComm :
          pcomm = [N |-> n, size |-> sz, range |-> [r \in 0 .. (sz - 1) |-> NoRange]]

\* rank r of the particle communicator: gpu_partition_rank.setN(np, offset)
RankSplits(r) ==
    /\ pcomm.range[r] = NoRange
    /\ pcomm' = [pcomm EXCEPT !.range[r] =
                     <<SplitOffset(pcomm.N, pcomm.size, r),
                       SplitLength(pcomm.N, pcomm.size, r)>>]
    /\ UNCHANGED <<ddvars, hvars, tvars, stream_tables, thermo, imd>>

NextSplit == \E r \in 0 .. (pcomm.size - 1) : RankSplits(r)

SpecSplit == InitSplit /\ [][NextSplit]_vars

\* =========================================================================
\* ComputeThermoGPU::computeProperties on the ranks of the MPI communicator
\* =========================================================================
MaxThermoRanks == 2   \* ranks of the MPI communicator explored
MaxGroup == 2         \* largest number of local group members explored

ThermoRanks == 0 .. (MaxThermoRanks - 1)

PDataFlagNames == {"isotropic_virial", "potential_energy", "pressure_tensor"}

\* the all_reduce calls of one computeProperties, in program order
CollectiveSequence(flags) ==
    <<"T">>
    \o (IF "isotropic_virial" \in flags THEN <<"P">> ELSE <<>>)
    \o <<"ke">>
    \o (IF "potential_energy" \in flags THEN <<"pe">> ELSE <<>>)
    \o (IF "pressure_tensor" \in flags
        THEN <<"Pxx", "Pxy", "Pxz", "Pyy", "Pyz", "Pzz">> ELSE <<>>)

InitThermo ==
    /\ DDIdle /\ HPMCIdle
    /\ uorder = <<>> /\ wscan = <<>> /\ pfilter = <<>> /\ dstreams = <<>>
    /\ stream_tables = <<>> /\ imd = <<>> /\ pcomm = <<>>
    /\ \E g \in [ThermoRanks -> 0 .. MaxGroup], f \in SUBSET PDataFlagNames :
          thermo = [group |-> g, flags |-> f,
                    pc |-> [r \in ThermoRanks |-> "call"],
                    reduced |-> [r \in ThermoRanks |-> <<>>]]

\* rank r enters computeProperties: it drops out when its local group is
\* empty, otherwise it runs the kernel and enters the first all_reduce
computePropertiesEnter(r) ==
    /\ thermo.pc[r] = "call"
    /\ IF thermo.group[r] = 0
       THEN thermo' = [thermo EXCEPT !.pc[r] = "returned"]
       ELSE thermo' = [thermo EXCEPT !.pc[r] = "all_reduce",
                                     !.reduced[r] = <<CollectiveSequence(thermo.flags)[1]>>]
    /\ UNCHANGED <<ddvars, hvars, tvars, stream_tables, imd, pcomm>>

\* an all_reduce completes once every rank of the communicator has entered
\* it; each rank goes on to its next all_reduce or returns
AllReduceCompletes ==
    /\ \A r \in ThermoRanks : thermo.pc[r] = "all_reduce"
    /\ \A r, q \in ThermoRanks : Len(thermo.reduced[r]) = Len(thermo.reduced[q])
    /\ thermo' =
          [thermo EXCEPT
             !.pc = [r \in ThermoRanks |->
                       IF Len(thermo.reduced[r]) = Len(CollectiveSequence(thermo.flags))
                       THEN "returned" ELSE "all_reduce"],
             !.reduced = [r \in ThermoRanks |->
                       IF Len(thermo.reduced[r]) = Len(CollectiveSequence(thermo.flags))
                       THEN thermo.reduced[r]
                       ELSE Append(thermo.reduced[r],
                                   CollectiveSequence(thermo.flags)[Len(thermo.reduced[r]) + 1])]]
    /\ UNCHANGED <<ddvars, hvars, tvars, stream_tables, imd, pcomm>>

NextThermo ==
    \/ \E r \in ThermoRanks : computePropertiesEnter(r)
    \/ AllReduceCompletes

SpecThermo == InitThermo /\ [][NextThermo]_vars

\* =========================================================================
\* IMDInterface: the connection to VMD served from analyze()
\* =========================================================================
MaxRate == 2     \* largest transmission rate explored
MaxCount == 2    \* largest number of analyze() calls explored

NULL == "NULL"
Connected == "sock"

\* the headers imd_recv_header can return; IMD_ENERGIES stands for the
\* commands dispatch() does not implement
IMDTypes == {"IMD_DISCONNECT", "IMD_GO", "IMD_KILL", "IMD_MDCOMM", "IMD_TRATE",
             "IMD_PAUSE", "IMD_IOERROR", "IMD_ENERGIES"}

\* processDeadConnection that leaves m_active alone
processDeadConnectionStaysActive(x) ==
    [x EXCEPT !.m_connected_sock = NULL, !.m_paused = FALSE]

processDeadConnection(x) ==
    [x EXCEPT !.m_connected_sock = NULL, !.m_active = FALSE, !.m_paused = FALSE]

processIMD_GO(x) == [x EXCEPT !.m_paused = FALSE, !.m_active = TRUE]

processIMD_PAUSE(x) == [x EXCEPT !.m_paused = ~x.m_paused]

processIMD_TRATE(x, rate) == [x EXCEPT !.m_trate = rate]

processIMD_MDCOMM(x, err) ==
    IF err THEN [processDeadConnection(x) EXCEPT !.last = "recv_error"] ELSE x

\* dispatch(): res is the result of vmdsock_selread, header the received
\* header, err the result of imd_recv_mdcomm, rate the length field
dispatch(x, res, header, err, rate) ==
    IF res = -1 THEN [processDeadConnection(x) EXCEPT !.last = "select_error"]
    ELSE IF res = 0 THEN [x EXCEPT !.last = "no_message"]
    ELSE LET y == [x EXCEPT !.last = header] IN
         CASE header = "IMD_DISCONNECT" -> processDeadConnection(y)
           [] header = "IMD_GO" -> processIMD_GO(y)
           [] header = "IMD_KILL" -> [processDeadConnection(y) EXCEPT !.pc = "threw"]
           [] header = "IMD_MDCOMM" -> processIMD_MDCOMM(y, err)
           [] header = "IMD_TRATE" -> processIMD_TRATE(y, rate)
           [] header = "IMD_PAUSE" -> processIMD_PAUSE(y)
           [] header = "IMD_IOERROR" -> processDeadConnection(y)
           [] OTHER -> [processDeadConnection(y) EXCEPT !.last = "unimplemented"]

\* establishConnectionAttempt(): incoming is vmdsock_selread(m_listen_sock) > 0,
\* failed the result of imd_handshake
establishConnectionAttempt(x, incoming, failed) ==
    IF incoming
    THEN IF failed THEN [x EXCEPT !.m_connected_sock = NULL, !.last = "handshake_failed"]
                   ELSE [x EXCEPT !.m_connected_sock = Connected, !.last = "accepted"]
    ELSE [x EXCEPT !.last = "no_connection"]

\* sendCoords(): err1 from imd_send_energies, err2 from imd_send_fcoords
sendCoords(x, err1, err2) ==
    IF err1 \/ err2 THEN [processDeadConnection(x) EXCEPT !.last = "send_error"]
    ELSE [x EXCEPT !.last = "sent"]

\* the do-while of analyze() without its condition
WhilePausedOnce(x) == FALSE

\* while (m_paused)
WhilePaused(x) == x.m_paused

InitIMD ==
    /\ DDIdle /\ HPMCIdle
    /\ uorder = <<>> /\ wscan = <<>> /\ pfilter = <<>> /\ dstreams = <<>>
    /\ stream_tables = <<>> /\ thermo = <<>> /\ pcomm = <<>>
    /\ \E pause \in BOOLEAN, rate \in 0 .. MaxRate :
          imd = [pc |-> "constructed", m_connected_sock |-> NULL, m_active |-> FALSE,
                 m_paused |-> pause, m_trate |-> rate, m_count |-> 0,
                 g_sigint_recvd |-> FALSE, last |-> "constructed"]

IMDRest == <<ddvars, hvars, tvars, stream_tables, thermo, pcomm>>

\* the signal handler of the process records a ctrl-C
SigInt ==
    /\ ~imd.g_sigint_recvd
    /\ imd' = [imd EXCEPT !.g_sigint_recvd = TRUE]
    /\ UNCHANGED IMDRest

\* analyze() is called: m_count++
analyzeBegin ==
    /\ imd.pc \in {"constructed", "returned", "threw"}
    /\ imd.m_count < MaxCount
    /\ imd' = [imd EXCEPT !.pc = "connect", !.m_count = @ + 1, !.last = "analyze"]
    /\ UNCHANGED IMDRest

\* top of the outer loop: establish a connection if one has not been made
analyzeConnect ==
    /\ imd.pc = "connect"
    /\ \E incoming \in BOOLEAN, failed \in BOOLEAN :
          LET y == IF imd.m_connected_sock = NULL
                   THEN establishConnectionAttempt(imd, incoming, failed)
                   ELSE imd
          IN imd' = [y EXCEPT !.pc = IF y.m_connected_sock # NULL
                                     THEN "dispatch" ELSE "sigint"]
    /\ UNCHANGED IMDRest

\* one dispatch() of the inner loop
analyzeDispatch ==
    /\ imd.pc = "dispatch"
    /\ \E res \in {-1, 0, 1}, header \in IMDTypes, err \in BOOLEAN, rate \in 0 .. MaxRate :
          LET y == dispatch(imd, res, header, err, rate)
          IN imd' = IF y.pc = "threw" THEN y
                    ELSE [y EXCEPT !.pc = IF y.m_connected_sock # NULL
                                          THEN "available" ELSE "sigint"]
    /\ UNCHANGED IMDRest

\* the inner loop condition: m_connected_sock && messagesAvailable()
messagesAvailable ==
    /\ imd.pc = "available"
    /\ \E res \in {-1, 0, 1} :
          imd' = IF res = -1
                 THEN [processDeadConnection(imd) EXCEPT !.pc = "sigint", !.last = "select_error"]
                 ELSE [imd EXCEPT !.pc = IF res = 1 THEN "dispatch" ELSE "sigint"]
    /\ UNCHANGED IMDRest

\* quit if ctrl-C was pressed, then the outer loop condition
analyzeLoopEnd ==
    /\ imd.pc = "sigint"
    /\ imd' = IF imd.g_sigint_recvd
              THEN [imd EXCEPT !.g_sigint_recvd = FALSE, !.pc = "threw", !.last = "SIGINT"]
              ELSE [imd EXCEPT !.pc = IF WhilePaused(imd) THEN "connect" ELSE "send"]
    /\ UNCHANGED IMDRest

\* after the loop: send data when active, connected and the rate matches
analyzeEnd ==
    /\ imd.pc = "send"
    /\ \E err1 \in BOOLEAN, err2 \in BOOLEAN :
          LET y == IF /\ imd.m_connected_sock # NULL
                      /\ imd.m_active
                      /\ (imd.m_trate = 0 \/ imd.m_count % imd.m_trate = 0)
                   THEN sendCoords(imd, err1, err2)
                   ELSE imd
          IN imd' = [y EXCEPT !.pc = "returned"]
    /\ UNCHANGED IMDRest

NextIMD ==
    \/ SigInt
    \/ analyzeBegin
    \/ analyzeConnect
    \/ analyzeDispatch
    \/ messagesAvailable
    \/ analyzeLoopEnd
    \/ analyzeEnd

SpecIMD == InitIMD /\ [][NextIMD]_vars

\* =========================================================================
\* Properties
\* =========================================================================

\* ------------------------------------------- properties of the HPMC sweep
\* position of every particle in the forward and in the reversed update order
ForwardOrder(n) == [i \in 0 .. (n - 1) |-> i]

ReverseOrder(n) == [i \in 0 .. (n - 1) |-> n - i - 1]

\* the order sampled by shuffle() for this step
SampledOrder == IF m_is_reversed THEN ReverseOrder(N) ELSE ForwardOrder(N)

OtherOrder == IF m_is_reversed THEN ForwardOrder(N) ELSE ReverseOrder(N)

\* sequential reference chain: visit the particles by increasing position in
\* ord; a particle is rejected iff its reject_out_of_cell flag is set or it
\* overlaps the trial configuration of an earlier particle the chain accepted
RECURSIVE SequentialChainFrom(_, _, _, _, _, _)
SequentialChainFrom(k, rej, ord, rooc, ov, n) ==
    IF k >= n THEN rej
    ELSE LET p == CHOOSE q \in 0 .. (n - 1) : ord[q] = k
             r == rooc[p] \/ \E j \in 0 .. (n - 1) :
                      ord[j] < k /\ ~rej[j] /\ {p, j} \in ov
         IN SequentialChainFrom(k + 1, [rej EXCEPT ![p] = r], ord, rooc, ov, n)

SequentialChain(ord, rooc, ov, n) ==
    SequentialChainFrom(0, [i \in 0 .. (n - 1) |-> FALSE], ord, rooc, ov, n)

\* the convergence loop run on one device with all lanes in lock step
RECURSIVE LoopFrom(_, _, _, _, _)
LoopFrom(rej, ord, rooc, ov, n) ==
    LET out == [i \in 0 .. (n - 1) |-> NarrowPhase(i, ord, rej, rooc, ov, n)]
    IN IF out = rej THEN out ELSE LoopFrom(out, ord, rooc, ov, n)

LoopResult(ord, rooc, ov, n) == LoopFrom(rooc, ord, rooc, ov, n)

LoopExited == pc = "update_pdata"

\* the chain 0 - 1 - 2: each particle overlaps its neighbor in index order
ChainOfThree ==
    /\ N = 3 /\ overlaps = {{0, 1}, {1, 2}}
    /\ \A i \in Particles : ~m_reject_out_of_cell[i]

\* C1: when the convergence loop of a sweep exits, the reject vector equals
\* the outcome of the sequential reference chain run in the sampled order.
C1_SequentialEquivalence ==
    LoopExited =>
        m_reject = SequentialChain(SampledOrder, m_reject_out_of_cell, overlaps, N)

C1_Witness ==
    /\ LoopExited /\ ChainOfThree /\ m_is_reversed
    /\ m_reject = [i \in 0 .. 2 |-> i = 1]

\* C2 as stated: in every sweep the convergence loop completes at most N
\* iterations.
C2_IterationBound == niter <= N

\* C2 amended: the convergence loop completes at most N iterations in a sweep
\* without depletants (zero fugacity) and at most N + 1 with depletants, whose
\* rejections are not part of the initial hypothesis reject_out_of_cell.
C2_IterationBoundByMode ==
    niter <= (IF m_fugacity = 0 THEN N ELSE N + 1)

C2_Witness ==
    /\ LoopExited /\ N = 2 /\ m_fugacity # 0 /\ niter = 3
    /\ overlaps = {{0, 1}} /\ \A i \in Particles : ~m_reject_out_of_cell[i]

\* the same chain without depletants takes N iterations
C2_WitnessHard ==
    /\ LoopExited /\ N = 2 /\ m_fugacity = 0 /\ niter = 2
    /\ overlaps = {{0, 1}} /\ \A i \in Particles : ~m_reject_out_of_cell[i]

Mirror(f, n) == [i \in 0 .. (n - 1) |-> f[n - 1 - i]]

MirrorPairs(ov, n) == {{n - 1 - i : i \in pr} : pr \in ov}

\* no two particles with clear reject_out_of_cell flags overlap
NoFreeOverlap ==
    \A pr \in overlaps : \E i \in pr : m_reject_out_of_cell[i]

C5_PartitionIndependent ==
    [][/\ (pc = "narrow_phase" /\ pc' = "narrow_phase" /\ lanes_done' # {}) =>
            /\ m_reject' = m_reject
            /\ \E i \in Particles \ lanes_done :
                  \A j \in Particles \ {i} : m_reject_out'[j] = m_reject_out[j]
       /\ LoopExited =>
            LET res == LoopResult(SampledOrder, m_reject_out_of_cell, overlaps, N)
            IN /\ m_reject = res
               /\ postype' = [i \in Particles |->
                                 IF res[i] THEN postype[i] ELSE postype[i] + 1]]_vars

C5_Witness ==
    /\ LoopExited /\ ChainOfThree /\ niter = 3
    /\ gpu_partition = <<(<<0, 1>>), (<<1, 3>>)>>

\* ------------------------------------------- properties of update()
\* the axes the minimum image convention is checked on
CountedAxes(gb) == IF gb.ndim = 3 THEN 1 .. 3 ELSE 1 .. 2

\* some counted periodic axis has nearest plane distance < 2 * nominal width
BelowMinimumImage(gb) ==
    \E a \in CountedAxes(gb) : gb.periodic[a] /\ gb.npd[a] < 2 * m_nominal_width

\* ... <= 2 * nominal width
AtOrBelowMinimumImage(gb) ==
    \E a \in CountedAxes(gb) : gb.periodic[a] /\ gb.npd[a] <= 2 * m_nominal_width

\* no position, trial move, reject flag or counter is written
DataUntouched ==
    UNCHANGED <<postype, m_trial_postype, m_reject, m_reject_out,
                m_reject_out_of_cell, m_counters, m_count_total>>

\* C14 as stated: with the box below the minimum image size on a counted
\* periodic axis, update() raises the fatal error on every rank, with no
\* trial move proposed and no data modified.
C14_FatalOnEveryRank ==
    [][(pc = "entered" /\ BelowMinimumImage(global_box)) =>
          (pc' = "error" /\ DataUntouched)]_vars

\* C14 amended: update() raises the fatal error exactly on the ranks that
\* hold at least one local particle, when on a counted periodic axis the
\* nearest plane distance is at most twice the nominal width; it does so
\* before any trial move is proposed and with no data modified.  A rank
\* without local particles skips the test and goes on to communicate().
C14_FatalWhereParticles ==
    [][pc = "entered" =>
          /\ (pc' = "error") <=> (N > 0 /\ AtOrBelowMinimumImage(global_box))
          /\ pc' = "error" => (DataUntouched /\ n_shuffle' = 0)
          /\ N = 0 => pc' = "wrap"]_vars

C14_Witness ==
    /\ pc = "error" /\ N > 0 /\ global_box.ndim = 2
    /\ global_box.periodic = <<FALSE, TRUE, TRUE>>
    /\ global_box.npd = <<1, 2, 1>>
    /\ \A i \in Particles : postype[i] = 0 /\ m_trial_postype[i] = 0

\* the reject vector of the sweep when the scratch never overflows: the
\* fixed point with the depletant rejections added to reject_out_of_cell
SweepResult ==
    LoopResult(SampledOrder,
               [i \in Particles |-> m_reject_out_of_cell[i] \/ depl[i] >= MaxDF],
               overlaps \cup patch_pairs, N)

\* the host is about to test the reported length after a complete kernel pass
AtLengthTest ==
    /\ pc = "narrow_phase" /\ lanes_done = Particles
    /\ (SkipDepletants(m_fugacity) \/ depl_ran)

\* C15: a reported length above m_max_len makes the host raise m_max_len to
\* it and rerun the kernels of the same iteration on the same hypothesis
\* reject, trial state and update order, with no swap, convergence decision
\* or commit in between; the reject vector at loop exit is the one of a sweep
\* whose scratch never overflowed.
C15_RetryRerunsIteration ==
    [][/\ (AtLengthTest /\ m_req_len > m_max_len) =>
             /\ m_max_len' = m_req_len
             /\ n_retry' = n_retry + 1
             /\ pc' = "narrow_phase" /\ lanes_done' = {} /\ ~depl_ran'
       /\ n_retry' = n_retry + 1 =>
             /\ niter' = niter /\ converged' = converged
             /\ UNCHANGED <<m_reject, m_reject_out_of_cell, m_trial_postype, overlaps,
                            depl, m_is_reversed, m_update_order,
                            m_reverse_update_order, postype>>
       /\ LoopExited => m_reject = SweepResult]_vars

C15_Witness ==
    /\ LoopExited /\ n_retry >= 1 /\ N = 2 /\ m_ntrial # 0
    /\ depl[0] = 1 /\ depl[1] = MaxDF
    /\ ~m_reject[0] /\ m_reject[1] /\ ~m_reject_out_of_cell[1]

\* C16: every rerun strictly increases m_max_len, m_max_len never decreases,
\* the rerun loop is left at the first pass whose reported length is not
\* above m_max_len, and with reported lengths of at most MaxLen there are at
\* most MaxLen reruns.
C16_RetryBounded ==
    [][/\ m_max_len' >= m_max_len
       /\ n_retry' # n_retry => (n_retry' = n_retry + 1 /\ m_max_len' > m_max_len)
       /\ (AtLengthTest /\ m_req_len <= m_max_len) =>
             (pc' \in {"accept", "patch", "check_convergence"} /\ n_retry' = n_retry)
       /\ n_retry' <= m_max_len' /\ m_max_len' <= MaxLen]_vars

C16_Witness ==
    /\ n_retry = MaxLen /\ m_max_len = MaxLen /\ pc = "check_convergence"

\* C17: with zero fugacity no depletant kernel is ever launched, the Poisson
\* mean is 0, deltaF stays 0, and the reject vector at loop exit is the one
\* of the hard overlaps (and of the patch energy where enabled) alone.
C17_ZeroFugacityNull ==
    m_fugacity = 0 =>
        /\ ~depl_issued
        /\ \A vol \in 1 .. MaxDF : Lambda(m_fugacity, vol) = 0
        /\ \A i \in Particles : m_deltaF_int[i] = 0
        /\ LoopExited =>
              m_reject = LoopResult(SampledOrder, m_reject_out_of_cell,
                                    overlaps \cup patch_pairs, N)

C17_Witness ==
    /\ m_fugacity = 0 /\ pc = "update_pdata" /\ i_sel = 1 /\ N = 1 /\ ~m_patch
    /\ ~depl_issued /\ m_deltaF_int[0] = 0

\* C18 as stated: with more than one active device the counters are reduced
\* once per sweep, nselect times in a step.
C18_ReducedEverySweep ==
    (pc = "done" /\ NumActiveGPUs > 1 /\ N > 0) => n_reduce = m_nselect

\* C18 amended: with more than one active device the per-device counters
\* are reset at the start of update() and reduced into the totals once per
\* update() call, after the commit of the last sweep; the totals then hold
\* every attempt of the step exactly once (N per sweep).
C18_ReducedOncePerStep ==
    /\ (NumActiveGPUs > 1 /\ N > 0) =>
          n_reduce = (IF pc \in {"wrap", "done"} THEN 1 ELSE 0)
    /\ pc = "reduce" => i_sel = m_nselect
    /\ pc \in {"wrap", "done"} => m_count_total = N * m_nselect

C18_Witness ==
    /\ pc = "done" /\ NumActiveGPUs = 2 /\ N = 1 /\ m_nselect = 3
    /\ n_reduce = 1 /\ m_count_total = 3

\* C19 as stated: a call of update() that runs nselect sweeps invokes the
\* communicator nselect times.
C19_CommunicateEverySweep ==
    pc = "done" => n_communicate = m_nselect

\* C19 amended: communicate() is invoked exactly once per call of update(),
\* at its very end, whatever nselect is; never inside a sweep or a
\* convergence iteration.
C19_CommunicateOncePerStep ==
    n_communicate = (IF pc = "done" THEN 1 ELSE 0)

C19_Witness ==
    /\ pc = "done" /\ N = 1 /\ m_nselect = 3 /\ i_sel = 3 /\ n_communicate = 1

\* positions of update() inside the body of the loop over nselect
SweepPcs == {"gen_moves", "init_reject", "iteration", "narrow_phase", "accept", "patch",
             "check_convergence", "swap", "update_pdata"}

\* C20 as stated: the update order is regenerated once per sweep, so sweep
\* number i_sel of a step runs after i_sel + 1 selections.
C20_ShuffledEverySweep ==
    (pc \in SweepPcs /\ pc # "gen_moves") => n_shuffle = i_sel + 1

\* C20 amended: the update order is selected once per call of update(),
\* before the loop over nselect; every sweep of the step runs with that one
\* selection, so all sweeps of a step use the same direction.
C20_ShuffledOncePerStep ==
    [][/\ pc # "begin" => m_is_reversed' = m_is_reversed
       /\ pc \in SweepPcs => n_shuffle = 1]_vars

C20_Witness ==
    /\ pc = "narrow_phase" /\ i_sel = 1 /\ m_is_reversed /\ n_shuffle = 1

\* C21: within a sweep the particle data are written only by the commit
\* that follows convergence: no step of the proposal, the narrow phase, the
\* depletant insertion, the patch evaluation, the convergence check or a
\* scratch retry changes them, and the commit replaces the configuration of
\* particle i by its trial configuration iff the final reject[i] is false.
C21_CommitOnly ==
    [][/\ pc # "update_pdata" => postype' = postype
       /\ (pc = "update_pdata" /\ pc' # pc) =>
             \A i \in Particles :
                postype'[i] = IF m_reject[i] THEN postype[i] ELSE m_trial_postype[i]]_vars

C21_Witness ==
    /\ pc = "reduce" /\ N = 2 /\ niter >= 2 /\ n_retry >= 1
    /\ ~m_reject[0] /\ m_reject[1]
    /\ postype[0] = m_trial_postype[0] /\ postype[1] # m_trial_postype[1]

\* ------------------------------------------- properties of the stream tables
\* C36: after construction and after any sequence of slotNumTypesChange
\* calls, each of the six tables has an entry for every type-pair index with
\* one valid stream or event per active device, and update() never indexes
\* one of them out of range or uses a destroyed stream.
C36_TablesCoverAllPairs ==
    /\ ~stream_tables.fault
    /\ \A name \in TableNames :
       \A i \in 0 .. (stream_tables.ntypes - 1), j \in 0 .. (stream_tables.ntypes - 1) :
       \A d \in 0 .. (stream_tables.ndev - 1) :
           ValidEntry(stream_tables.t, name, stream_tables.ntypes, i, j, d)

\* what the code does establish: m_depletant_streams always covers all pairs,
\* and so do all six tables while the number of types has never grown
C36_ParentStreamsCoverAllPairs ==
    \A i \in 0 .. (stream_tables.ntypes - 1), j \in 0 .. (stream_tables.ntypes - 1) :
    \A d \in 0 .. (stream_tables.ndev - 1) :
        ValidEntry(stream_tables.t, "m_depletant_streams", stream_tables.ntypes, i, j, d)

\* one type at construction, two after slotNumTypesChange, update() of pair (1,1)
C36_FailingInput ==
    /\ stream_tables.ntypes = 2 /\ stream_tables.nslot = 1
    /\ stream_tables.used = <<1, 1>> /\ stream_tables.fault
    /\ DepletantIdx(2, 1, 1) \notin DOMAIN stream_tables.t["m_sync"]

\* ------------------------------------------- properties of the IMD interface
\* the ways a connection is dropped
DropEvents == {"select_error", "IMD_DISCONNECT", "IMD_KILL", "IMD_IOERROR",
               "unimplemented", "recv_error", "send_error"}

\* C38: m_active is true only while m_connected_sock is not NULL; it becomes
\* true only by IMD_GO received on a connected socket; every path that drops
\* the connection sets m_connected_sock to NULL and m_active to false
\* together.
C38_ActiveOnlyWhileConnected ==
    [][ /\ imd'.m_active => imd'.m_connected_sock # NULL
        /\ (~imd.m_active /\ imd'.m_active) =>
              (imd.pc = "dispatch" /\ imd'.last = "IMD_GO" /\ imd.m_connected_sock # NULL)
        /\ (imd'.last \in DropEvents /\ imd'.last # imd.last) =>
              (imd'.m_connected_sock = NULL /\ ~imd'.m_active)
        /\ (imd.m_connected_sock # NULL /\ imd'.m_connected_sock = NULL) =>
              (imd'.last \in DropEvents /\ ~imd'.m_active) ]_vars

\* an active connection has been dropped by a failed send
C38_Witness ==
    /\ imd.last = "send_error" /\ imd.pc = "returned"
    /\ imd.m_connected_sock = NULL /\ ~imd.m_active

\* IMD_GO has made the connection active
C38_WitnessActive ==
    imd.last = "IMD_GO" /\ imd.m_active /\ imd.m_connected_sock # NULL

\* C39: analyze() returns normally only with m_paused false; while paused
\* it keeps polling, and the pause ends only by IMD_GO, an IMD_PAUSE
\* received while paused, a dropped connection (which always clears
\* m_paused) or an exception (a pending SIGINT, IMD_KILL).
C39_ReturnsUnpaused ==
    [][ /\ imd'.pc = "returned" => ~imd'.m_paused
        /\ (imd.pc = "sigint" /\ imd.m_paused /\ ~imd.g_sigint_recvd) =>
              imd'.pc \in {"connect", "sigint"}
        /\ (imd.m_paused /\ ~imd'.m_paused) =>
              /\ imd.pc \in {"dispatch", "available"}
              /\ imd'.last \in ({"IMD_GO", "IMD_PAUSE"} \cup DropEvents)
        /\ (imd.m_connected_sock # NULL /\ imd'.m_connected_sock = NULL) =>
              ~imd'.m_paused
        /\ (imd.pc # "threw" /\ imd'.pc = "threw") =>
              imd'.last \in {"SIGINT", "IMD_KILL"} ]_vars

\* analyze() has returned after an IMD_PAUSE received while paused ended
\* the pause
C39_Witness ==
    /\ imd.pc = "returned" /\ ~imd.m_paused /\ ~imd.m_active
    /\ imd.last = "IMD_PAUSE" /\ imd.m_count = 1

\* analyze() polls while paused
C39_WitnessPolling ==
    imd.pc = "connect" /\ imd.m_paused /\ imd.last = "IMD_PAUSE"

\* SIGINT has ended analyze() during the pause
C39_WitnessSigInt ==
    imd.pc = "threw" /\ imd.m_paused /\ imd.last = "SIGINT"

\* ------------------------------------------- properties of the thermo compute
IsPrefix(a, b) == Len(a) <= Len(b) /\ SubSeq(b, 1, Len(a)) = a

\* C37: every rank that calls computeProperties takes part in the same
\* sequence of all_reduce collectives, a rank with an empty local group
\* included: a rank that has returned has entered every all_reduce that any
\* other rank has entered.
C37_SameCollectives ==
    \A r, q \in ThermoRanks :
       (thermo.pc[r] = "returned" /\ thermo.pc[q] # "call")
          => IsPrefix(thermo.reduced[q], thermo.reduced[r])

\* holds when no rank has an empty local group
C37_SameCollectivesNonEmptyGroups ==
    (\A r \in ThermoRanks : thermo.group[r] > 0) => C37_SameCollectives

\* rank 0 has no local member and has returned, rank 1 waits in its first
\* all_reduce, which can never complete
C37_FailingInput ==
    /\ thermo.group[0] = 0 /\ thermo.group[1] > 0
    /\ thermo.pc[0] = "returned" /\ thermo.reduced[0] = <<>>
    /\ thermo.pc[1] = "all_reduce" /\ thermo.reduced[1] = <<"T">>
    /\ ~ ENABLED AllReduceCompletes

\* with members on both ranks both return after the same collectives
C37_WitnessAllReturned ==
    /\ \A r \in ThermoRanks : thermo.pc[r] = "returned" /\ thermo.group[r] > 0
    /\ thermo.flags = PDataFlagNames
    /\ \A r \in ThermoRanks : Len(thermo.reduced[r]) = 10

\* ------------------------------------------- properties of the particle split
\* the particle indices rank r works on
RankIndices(r) == {pcomm.range[r][1] + k : k \in 0 .. (pcomm.range[r][2] - 1)}

AllRanksSplit == \A r \in 0 .. (pcomm.size - 1) : pcomm.range[r] # NoRange

\* the sub-ranges are pairwise disjoint, lie inside 0..N-1 and cover every
\* local particle index; a length is c or N - offset; a rank past the end
\* has an empty range
SplitIsPartition ==
    /\ \A r \in 0 .. (pcomm.size - 1) :
          /\ RankIndices(r) \subseteq 0 .. (pcomm.N - 1)
          /\ pcomm.range[r][2] \in {(pcomm.N \div pcomm.size) + 1,
                                    pcomm.N - pcomm.range[r][1]}
          /\ r * ((pcomm.N \div pcomm.size) + 1) >= pcomm.N => RankIndices(r) = {}
    /\ \A r \in 0 .. (pcomm.size - 1), q \in 0 .. (pcomm.size - 1) :
          r # q => RankIndices(r) \cap RankIndices(q) = {}
    /\ UNION {RankIndices(r) : r \in 0 .. (pcomm.size - 1)} = 0 .. (pcomm.N - 1)

SplitFitsUnsigned ==
    /\ pcomm.N + (pcomm.N \div pcomm.size) + 1 < Word
    /\ (pcomm.size - 1) * ((pcomm.N \div pcomm.size) + 1) < Word

C40_WitnessUneven ==
    /\ AllRanksSplit /\ SplitFitsUnsigned /\ pcomm.N = 7 /\ pcomm.size = 3
    /\ pcomm.range[2] = <<6, 1>>

\* ------------------------------------------- properties of the profiler
\* update() has returned normally
Returned == pc = "done"

\* C35: with a profiler attached, an update() that returns normally has
\* performed as many profiler pops as pushes, whatever the local particle
\* count.
C35_PushPopBalanced == (m_prof /\ Returned) => n_pop = n_push

\* what the code does establish: the calls balance on a rank with particles
C35_BalancedWithParticles == (m_prof /\ Returned /\ N > 0) => n_pop = n_push

\* a rank without local particles has popped without a push
C35_FailingInput == m_prof /\ Returned /\ N = 0 /\ n_push = 0 /\ n_pop = 1

\* ------------------------------------------- properties of UpdateOrderGPU
\* C23: after every call resize(N), whatever calls came before, the order
\* returned by get() is 0, 1, ..., N-1.
C23_ResizePostcondition ==
    uorder.last = "resize" => get(uorder.o) = [i \in 0 .. (uorder.arg - 1) |-> i]

\* what the code does establish: after resize(N) with N > 0 both arrays have
\* size N and hold the forward and the reversed order
C23_ArraysAfterResize ==
    (uorder.last = "resize" /\ uorder.arg > 0) =>
        /\ uorder.o.m_update_order = [i \in 0 .. (uorder.arg - 1) |-> i]
        /\ uorder.o.m_reverse_update_order =
              [i \in 0 .. (uorder.arg - 1) |-> uorder.arg - i - 1]

\* resize(2), shuffle() drawing the reversed order, resize(2)
C23_FailingInput ==
    /\ uorder.calls = <<(<<"resize", 2>>), (<<"shuffle", 0>>), (<<"resize", 2>>)>>
    /\ get(uorder.o) = (0 :> 1 @@ 1 :> 0)

\* the last non-zero size among the constructor argument n0 and the
\* arguments of the first k calls
RECURSIVE LastNonZeroSize(_, _, _)
LastNonZeroSize(n0, calls, k) ==
    IF k = 0 THEN n0
    ELSE IF calls[k][1] = "resize" /\ calls[k][2] # 0 THEN calls[k][2]
    ELSE LastNonZeroSize(n0, calls, k - 1)

OrderSize == LastNonZeroSize(uorder.ctor, uorder.calls, Len(uorder.calls))

Forward(n) == [i \in 0 .. (n - 1) |-> i]

PointReversal(n) == [i \in 0 .. (n - 1) |-> n - 1 - i]

\* C33: after any sequence of resize and shuffle calls, with n the last
\* non-zero size, get() returns the identity on 0..n-1 or its point
\* reversal; the two stored arrays are the same before and after a shuffle,
\* which selects the direction by the bit of its timestep alone, whatever
\* direction was selected before.
C33_TwoFixedOrders ==
    /\ uorder.o.m_update_order = Forward(OrderSize)
    /\ uorder.o.m_reverse_update_order = PointReversal(OrderSize)
    /\ get(uorder.o) \in {Forward(OrderSize), PointReversal(OrderSize)}
    /\ uorder.last = "shuffle" =>
          get(uorder.o) = IF uorder.rng[uorder.arg]
                          THEN PointReversal(OrderSize) ELSE Forward(OrderSize)

\* two shuffles in a row select the reversed and then the forward order
C33_Witness ==
    /\ Len(uorder.calls) = 3 /\ OrderSize = 2
    /\ uorder.calls[2][1] = "shuffle" /\ uorder.rng[uorder.calls[2][2]]
    /\ uorder.calls[3][1] = "shuffle" /\ ~uorder.rng[uorder.calls[3][2]]
    /\ get(uorder.o) = Forward(2)

\* ------------------------------------------- properties of the reject flags
\* C26: the convergence loop of every sweep starts with reject equal to
\* reject_out_of_cell and reject_out zero for every local particle; every
\* narrow phase leaves reject_out[i] = reject_out_of_cell[i] or an overlap
\* with an earlier-ordered particle not rejected in reject; and
\* reject_out_of_cell[i] implies reject[i] at every iteration boundary and
\* in the final result.
C26_RejectSeed ==
    [][/\ (pc = "init_reject" /\ pc' = "iteration") =>
             \A i \in Particles :
                 /\ m_reject'[i] = m_reject_out_of_cell'[i]
                 /\ m_reject_out'[i] = FALSE
       /\ (pc = "narrow_phase" /\ pc' = "check_convergence") =>
             \A i \in Particles :
                 m_reject_out'[i] =
                     NarrowPhase(i, d_update_order_by_ptl', m_reject',
                                 m_reject_out_of_cell', overlaps', N')
       /\ pc' \in {"iteration", "update_pdata"} =>
             \A i \in Particles : m_reject_out_of_cell'[i] => m_reject'[i]]_vars

C26_Witness ==
    /\ pc = "update_pdata" /\ niter >= 2
    /\ \E i \in Particles, j \in Particles :
          /\ m_reject_out_of_cell[i] /\ m_reject[i]
          /\ ~m_reject_out_of_cell[j] /\ m_reject[j]

\* the iteration rule applied to the hypothesis rej for particle i: the
\* narrow phase, the depletants of an enabled type pair and the patch energy
RejectRule(i, rej) ==
    \/ NarrowPhase(i, d_update_order_by_ptl, rej, m_reject_out_of_cell, overlaps, N)
    \/ (have_depletants /\ depl[i] >= MaxDF)
    \/ \E j \in Particles :
          /\ j # i /\ d_update_order_by_ptl[j] < d_update_order_by_ptl[i]
          /\ ~rej[j] /\ {i, j} \in patch_pairs

\* the kernels of an iteration are running or about to be compared
InIteration == pc \in {"narrow_phase", "accept", "patch", "check_convergence"}

\* C27: the condition flag is cleared at the start of every convergence
\* iteration and stays clear until the comparison; the loop exits exactly
\* after the first iteration in which reject and reject_out agree on every
\* particle, whatever the flag held before; on exit the reject vector is a
\* fixed point of the iteration rule.
C27_ExitAtFixedPoint ==
    [][/\ InIteration' => m_condition' = 0
       /\ pc = "swap" =>
             /\ converged' = (\A i \in Particles : m_reject[i] = m_reject_out[i])
             /\ pc' = IF \A i \in Particles : m_reject[i] = m_reject_out[i]
                      THEN "update_pdata" ELSE "iteration"
       /\ (pc = "swap" /\ pc' = "update_pdata") =>
             \A i \in Particles : m_reject'[i] = RejectRule(i, m_reject)']_vars

\* a later sweep exits after its second iteration: the first one raised the
\* flag, the second one cleared it and found no change
C27_Witness ==
    /\ pc = "update_pdata" /\ i_sel >= 1 /\ niter = 2 /\ m_condition = 0
    /\ \E i \in Particles : m_reject[i] /\ ~m_reject_out_of_cell[i]

\* reject and reject_out differ on some particle
RejectDiffers == \E i \in Particles : m_reject[i] # m_reject_out[i]

\* C28: in every iteration reject_out is written only by the narrow phase,
\* the depletant insertion, the acceptance of the auxiliary depletants and
\* the patch energy; the convergence check comes after all of them and right
\* before the swap, so a reject_out that differs from reject raises the flag
\* and the loop runs another iteration.
C28_CheckAfterWriters ==
    [][/\ (m_reject_out' # m_reject_out) =>
             pc \in {"init_reject", "narrow_phase", "accept", "patch", "swap"}
       /\ pc' = "swap" => pc \in {"swap", "check_convergence"}
       /\ pc = "check_convergence" =>
             /\ pc' = "swap"
             /\ m_condition' = IF RejectDiffers THEN 1 ELSE 0
       /\ (pc = "swap" /\ RejectDiffers) =>
             (m_condition = 1 /\ ~converged' /\ pc' = "iteration")]_vars

\* a rejection that only the patch energy produces is about to be swapped in
C28_Witness ==
    /\ pc = "swap" /\ m_patch /\ overlaps = {} /\ m_condition = 1
    /\ \A i \in Particles : ~m_reject_out_of_cell[i] /\ depl[i] < MaxDF
    /\ \E i \in Particles : m_reject_out[i] /\ ~m_reject[i]

\* a rejection that only the acceptance of the auxiliary depletants produces
C28_WitnessAccept ==
    /\ pc = "swap" /\ have_auxilliary_variables /\ overlaps = {} /\ m_condition = 1
    /\ patch_pairs = {}
    /\ \A i \in Particles : ~m_reject_out_of_cell[i]
    /\ \E i \in Particles : m_reject_out[i] /\ ~m_reject[i]

\* C29: in auxiliary-variable mode the deltaF accumulator of every local
\* particle is zero when the kernels of an iteration or of a scratch retry
\* start, and the acceptance test reads the sum of the contributions of the
\* last complete run only.
C29_DeltaFOfLastRun ==
    have_auxilliary_variables =>
        /\ (pc = "narrow_phase" /\ ~depl_ran) =>
               \A i \in Particles : m_deltaF_int[i] = 0
        /\ (pc = "accept" /\ m_req_len <= m_max_len) =>
               \A i \in Particles : m_deltaF_int[i] = depl[i]

\* the acceptance test of a later iteration of a later sweep, after a retry
C29_Witness ==
    /\ pc = "accept" /\ m_req_len <= m_max_len
    /\ i_sel >= 1 /\ niter >= 1 /\ n_retry >= 1
    /\ \E i \in Particles : m_deltaF_int[i] >= 1

\* C30: the trial configurations (positions, orientations, auxiliary
\* variables, move types) and reject_out_of_cell are written by the proposal
\* only, which runs once per sweep: it is entered from the start of update()
\* or from the commit of the sweep before and leaves to the convergence
\* loop; every other step up to the commit leaves them unchanged.
C30_TrialStateFrozen ==
    [][/\ pc # "gen_moves" =>
             /\ m_trial_postype' = m_trial_postype
             /\ m_reject_out_of_cell' = m_reject_out_of_cell
       /\ (pc' = "gen_moves" /\ pc # "gen_moves") => pc \in {"begin", "update_pdata"}
       /\ (pc = "gen_moves" /\ pc' # pc) =>
             /\ pc' = "init_reject"
             /\ \A i \in Particles : m_trial_postype'[i] = postype[i] + 1
       /\ (pc = "update_pdata" /\ pc' # pc) => i_sel' = i_sel + 1]_vars

\* the commit of a sweep that needed a scratch retry and two iterations
C30_Witness ==
    /\ pc = "update_pdata" /\ niter >= 2 /\ n_retry >= 1
    /\ \E i \in Particles : m_reject_out_of_cell[i]
    /\ \A i \in Particles : m_trial_postype[i] = postype[i] + 1

\* ------------------------------------------- properties of the filter
Elements(sq) == {sq[k] : k \in 1 .. Len(sq)}

StrictlyAscending(sq) == \A k \in 1 .. (Len(sq) - 1) : sq[k] < sq[k + 1]

\* C25: for tag lists returned in any order, getSelectedTags returns exactly
\* the tags selected by both filters, each once and ascending; swapping f
\* and g gives the same result; a filter intersected with itself gives its
\* tags sorted.
C25_Intersection ==
    /\ pfilter.fg # NotCalled =>
          /\ Elements(pfilter.fg) = Elements(pfilter.X) \cap Elements(pfilter.Y)
          /\ StrictlyAscending(pfilter.fg)
    /\ (pfilter.fg # NotCalled /\ pfilter.gf # NotCalled) => pfilter.fg = pfilter.gf
    /\ pfilter.ff # NotCalled =>
          /\ Elements(pfilter.ff) = Elements(pfilter.X)
          /\ Len(pfilter.ff) = Len(pfilter.X)
          /\ StrictlyAscending(pfilter.ff)

C25_Witness ==
    /\ pfilter.X = <<2, 0, 1>> /\ pfilter.Y = <<2, 1>>
    /\ pfilter.fg = <<1, 2>> /\ pfilter.gf = <<1, 2>> /\ pfilter.ff = <<0, 1, 2>>

\* ------------------------------------------- properties of warp_scan
\* sum of the row's elements a .. b - 1, elements past the width being 0
RECURSIVE RangeSum(_, _, _, _)
RangeSum(vec, w, a, b) ==
    IF a >= b THEN 0
    ELSE (IF b - 1 < w THEN vec[b - 1] ELSE 0) + RangeSum(vec, w, a, b - 1)

ScanWritten == wscan.pc \in {"test_sum", "test_iter", "test_tid", "done"}

Started(name, d) == dstreams.k[<<name, d>>] \in {"running", "done"}

Completed(name, d) == dstreams.k[<<name, d>>] = "done"

\* C22 as stated: on every device the phase 2 insertion does not start
\* before the phase 1 insertion of the same pair and device has completed.
C22_Phase2AfterPhase1 ==
    \A d \in Devs(dstreams.ndev) : Started("phase2", d) => Completed("phase1", d)

\* C22 amended: on every device phase 1 and phase 2 start only after the
\* kernels issued before them on the pair's parent stream have completed
\* (they wait on the event m_sync); they run on separate streams, in either
\* order or at the same time; the parent stream goes on only after both have
\* completed (it waits on m_sync_phase1 and m_sync_phase2).
C22_PhasesBetweenSyncs ==
    \A d \in Devs(dstreams.ndev) :
        /\ Started("phase1", d) => Completed("generate", d)
        /\ Started("phase2", d) => Completed("generate", d)
        /\ Started("next", d) => (Completed("phase1", d) /\ Completed("phase2", d))

C22_Witness ==
    /\ dstreams.ndev = 2
    /\ Completed("phase2", 1) /\ dstreams.k[<<"phase1", 1>>] = "queued"
    /\ Started("phase1", 0) /\ ~Started("phase2", 0)

\* both phases done, the parent stream has gone on
C22_WitnessJoined ==
    /\ dstreams.ndev = 2 /\ \A d \in Devs(2) : Completed("next", d)

\* C34: on every device the phase 1 and the phase 2 stream begin their
\* insertion only after the zeroing of deltaF, the generation of the
\* depletant counts and the max reduction on the parent stream have
\* completed, and the parent stream starts no later work before both the
\* phase 1 and the phase 2 kernel have completed.
C34_ForkJoin ==
    \A d \in Devs(dstreams.ndev) :
        /\ (Started("phase1", d) \/ Started("phase2", d)) =>
              /\ Completed("memset", d)
              /\ Completed("generate", d)
              /\ Completed("max", d)
        /\ Started("next", d) => (Completed("phase1", d) /\ Completed("phase2", d))

\* the parent stream of device 0 has gone on while device 1 still inserts
C34_Witness ==
    /\ dstreams.ndev = 2
    /\ Started("next", 0) /\ Completed("phase1", 0) /\ Completed("phase2", 0)
    /\ dstreams.k[<<"phase1", 1>>] = "running" /\ dstreams.k[<<"phase2", 1>>] = "running"
    /\ Completed("memset", 1) /\ Completed("max", 1)

\* ------------------------------------------- properties of the decomposition
Product(t) == t[1] * t[2] * t[3]

Area(t) == SurfaceArea(L, t[1], t[2], t[3])

\* all triples of positive integers with product P
Divisors(m) == {a \in 1 .. m : m % a = 0}

Factorizations(P) ==
    UNION {{<<a, b, (P \div a) \div b>> : b \in Divisors(P \div a)} :
           a \in Divisors(P)}

\* the factorizations that agree with the pinned (non-zero) entries of rq
Matching(P, rq) ==
    {t \in Factorizations(P) : \A a \in 1 .. 3 : rq[a] # 0 => t[a] = rq[a]}

MinimalIn(t, S) == t \in S /\ \A u \in S : Area(t) <= Area(u)

\* the root has searched and is about to broadcast: its locals are live
RootFound == dpc[root] = "found"

\* C6: called with nx = ny = nz = 0, findDecomposition returns true with a
\* factorization of P whose interface area is minimal among all
\* factorizations of P; P = 8, L = (2,2,2) gives (2,2,2).
C6_UnconstrainedMinimal ==
    (RootFound /\ req = NoTriple) =>
        /\ fd_first.found
        /\ MinimalIn(fd_first.n, Factorizations(size))
        /\ (size = 8 /\ L = <<2, 2, 2>>) => fd_first.n = <<2, 2, 2>>

C6_Witness ==
    /\ RootFound /\ req = NoTriple /\ size = 8 /\ L = <<2, 2, 2>>
    /\ fd_first.found /\ fd_first.n = <<2, 2, 2>>

\* C7: after the constructor has finished on a rank, whatever was requested,
\* the stored grid has m_nx * m_ny * m_nz = P with every count at least 1.
C7_GridProduct ==
    \A r \in Ranks : dpc[r] = "done" =>
        /\ Product(m_n[r]) = size
        /\ \A a \in 1 .. 3 : m_n[r][a] >= 1

C7_Witness ==
    /\ Constructed /\ size >= 4 /\ msg_error = 1
    /\ Product(m_n[size - 1]) = size /\ m_n[size - 1] # <<1, 1, size>>

\* C8: called with a pinned axis, findDecomposition returns true exactly when
\* a factorization of P matching every pinned value exists, and then leaves
\* a minimum-area one among the matching factorizations in nx, ny, nz.
C8_PinnedMinimal ==
    (RootFound /\ req # NoTriple) =>
        /\ fd_first.found <=> (Matching(size, req) # {})
        /\ fd_first.found => MinimalIn(fd_first.n, Matching(size, req))

C8_Witness ==
    /\ RootFound /\ req # NoTriple /\ fd_first.found
    /\ Cardinality(Matching(size, req)) >= 2
    /\ \E t \in Matching(size, req) : Area(t) > Area(fd_first.n)

\* C9 as stated: with unsatisfiable pinned dimensions the constructor aborts,
\* so the root completes construction only if no search failed (a failed
\* search is the one event that writes to msg->error()).
C9_AbortsWhenUnsatisfiable ==
    dpc[root] = "done" => msg_error = 0

\* C9 amended: with unsatisfiable pinned dimensions the root writes one error
\* diagnostic and installs the minimum-area unconstrained decomposition, and
\* construction completes on every rank with that decomposition.
C9_FallsBackToDefault ==
    /\ (RootFound /\ ~fd_first.found) =>
            /\ msg_error = 1
            /\ MinimalIn(m_n[root], Factorizations(size))
    /\ \A r \in Ranks : (dpc[r] = "done" /\ msg_error = 1) =>
            m_n[r] = m_n[root] /\ Product(m_n[r]) = size

C9_Witness ==
    /\ Constructed /\ msg_error = 1 /\ size >= 2
    /\ m_n[size - 1] # <<1, 1, size>>

\* C10: the neighbor B of rank A in direction d has A as its neighbor in the
\* opposite direction (0<->1, 2<->3, 4<->5).
Opposite(d) == IF d % 2 = 0 THEN d + 1 ELSE d - 1

C10_NeighborSymmetry ==
    query.valid =>
        /\ query.res \in Ranks
        /\ getNeighborRank(m_n[query.res], m_grid_pos[query.res],
                           Opposite(query.dir)) = query.rank

C10_Witness ==
    /\ query.valid /\ query.dir = 0 /\ m_n[query.rank][1] >= 3
    /\ m_grid_pos[query.rank][1] = m_n[query.rank][1] - 1
    /\ query.res # query.rank

\* axis (1..3) and sign of direction d: 0,1 = +x,-x; 2,3 = +y,-y; 4,5 = +z,-z
AxisOf(d) == (d \div 2) + 1

StepOf(d) == IF d % 2 = 0 THEN 1 ELSE -1

\* C11: getNeighborRank(d) returns a rank in 0..P-1 whose grid position is
\* the caller's on the two other axes and the caller's plus or minus one,
\* modulo the grid count, on the axis of d; on an axis with grid count 1 the
\* caller is its own neighbor.
C11_NeighborOnTorus ==
    query.valid =>
        LET n == m_n[query.rank]
            p == m_grid_pos[query.rank]
            a == AxisOf(query.dir)
        IN /\ query.res \in Ranks
           /\ \A b \in 1 .. 3 :
                 m_grid_pos[query.res][b] =
                     IF b = a THEN (p[a] + StepOf(query.dir) + n[a]) % n[a] ELSE p[b]
           /\ n[a] = 1 => query.res = query.rank

C11_Witness ==
    /\ query.valid /\ query.dir = 3 /\ size >= 4
    /\ m_n[query.rank][2] >= 2 /\ m_n[query.rank][1] = 1
    /\ m_grid_pos[query.rank][2] = 0
    /\ m_grid_pos[query.res][2] = m_n[query.rank][2] - 1

\* C12: isAtBoundary(d) is true iff the grid coordinate on the axis of d is
\* 0 (negative d) or the grid count minus 1 (positive d), which is exactly
\* when the unwrapped neighbor coordinate of getNeighborRank(d) leaves the grid.
C12_BoundaryIffWrap ==
    bquery.valid =>
        LET n == m_n[bquery.rank]
            p == m_grid_pos[bquery.rank]
            a == AxisOf(bquery.dir)
            raw == p[a] + adj[bquery.dir + 1][a]
        IN /\ bquery.res <=>
                 p[a] = (IF bquery.dir % 2 = 1 THEN 0 ELSE n[a] - 1)
           /\ bquery.res <=> (raw # Wrap(raw, n[a]))

C12_Witness ==
    /\ bquery.valid /\ bquery.res /\ bquery.dir = 0
    /\ m_n[bquery.rank][1] >= 2
    /\ m_grid_pos[bquery.rank][1] = m_n[bquery.rank][1] - 1

Abs(x) == IF x >= 0 THEN x ELSE -x

\* the lower bound calculateLocalBox gives, for the arguments of the
\* outstanding call, to the neighbor of the calling rank in the positive
\* direction of axis a
UpperNeighborLo(a) ==
    LET nb == getNeighborRank(m_n[lbox.rank], m_grid_pos[lbox.rank], 2 * (a - 1))
    IN LocalLo(m_n[nb][a], m_grid_pos[nb][a], lbox.gL[a], lbox.fused)

ScannedBefore(t, u) == t[1] < u[1] \/ (t[1] = u[1] /\ t[2] < u[2])

EarliestMinimal(t, S) ==
    /\ MinimalIn(t, S)
    /\ \A u \in S : (u # t /\ Area(u) = Area(t)) => ScannedBefore(t, u)

\* C31: when several factorizations of P share the minimal interface area,
\* the unconstrained search leaves the one that the loops try first (nx
\* ascending, then ny ascending); the initial guess (1,1,P) counts as found
\* first and only a strictly smaller area replaces the current triple.
C31_TiesKeepEarliest ==
    RootFound =>
        /\ req = NoTriple => EarliestMinimal(fd_first.n, Factorizations(size))
        /\ (req = NoTriple \/ ~fd_first.found) =>
               EarliestMinimal(m_n[root], Factorizations(size))
        /\ (req = NoTriple /\ Area(<<1, 1, size>>) = Area(fd_first.n)) =>
               fd_first.n = <<1, 1, size>>

C31_Witness ==
    /\ RootFound /\ req = NoTriple /\ size = 4 /\ L = <<1, 1, 1>>
    /\ fd_first.n = <<1, 2, 2>>
    /\ Area(<<2, 1, 2>>) = Area(fd_first.n) /\ Area(<<2, 2, 1>>) = Area(fd_first.n)

\* the initial guess survives a tie with a later triple
C31_WitnessGuess ==
    /\ RootFound /\ req = NoTriple /\ size = 2 /\ L = <<1, 1, 1>>
    /\ fd_first.n = <<1, 1, 2>>

\* ------------------------------------------- the grid on all ranks
GridPositions(n) == (0 .. (n[1] - 1)) \X (0 .. (n[2] - 1)) \X (0 .. (n[3] - 1))

\* C32: once the constructor has returned on all ranks, every rank holds the
\* grid the root computed, the grid position of a rank is the decode of its
\* rank with x varying fastest, distinct ranks have distinct positions and
\* every grid position is held by exactly one rank.
C32_SameGridOneRankPerCell ==
    Constructed =>
        /\ \A r \in Ranks :
              /\ m_n[r] = m_n[root]
              /\ m_grid_pos[r] \in GridPositions(m_n[r])
              /\ m_grid_pos[r][1] + m_n[r][1] * m_grid_pos[r][2]
                    + m_n[r][1] * m_n[r][2] * m_grid_pos[r][3] = r
        /\ \A r \in Ranks, q \in Ranks : r # q => m_grid_pos[r] # m_grid_pos[q]
        /\ \A g \in GridPositions(m_n[root]) :
              Cardinality({r \in Ranks : m_grid_pos[r] = g}) = 1

C32_Witness ==
    /\ Constructed /\ size = 6 /\ root = 5
    /\ m_n[0][1] > 1 /\ m_n[0][1] < 6 /\ m_n[0][1] # m_n[0][2]
    /\ \E r \in Ranks : m_grid_pos[r][1] > 0 /\ m_grid_pos[r][2] + m_grid_pos[r][3] > 0

====
